---- MODULE Spec2Model ----
(***************************************************************************)
(* Model of the C++ routing-convergence monitor (converge_analyze_cpp):    *)
(* ConvergenceMonitor / ConvergenceSession (the session engine and the     *)
(* quiet-period checker thread), NetlinkMonitor (unified single reader and *)
(* split two-reader subscriber) and Logger (bounded queue, consumer        *)
(* thread, log_async / log_sync).                                          *)
(*                                                                         *)
(* Every critical section of the code (a lock_guard scope, an atomic      *)
(* fetch_add, a call of a method that takes the session's own mutex) is    *)
(* one step; a thread can be preempted between any two such steps.  Time   *)
(* is the system clock in milliseconds; it advances in steps of at most     *)
(* clock_step.  Pointers to sessions are session ids; a session destroyed  *)
(* by unique_ptr assignment is kept with freed = TRUE.                     *)
(*                                                                         *)
(* Labels: the code's strings "路由添加" / "路由删除" are written          *)
(* "ROUTE_ADD" / "ROUTE_DEL" and "Netem事件(T)" is written "Netem(T)".     *)
(***************************************************************************)
EXTENDS Integers, Sequences, FiniteSets, TLC

VARIABLES
    now,                        \* system_clock, ms
    clock_step,                 \* granularity of the clock in this run
    script,                     \* inputs still to be delivered (scenario runs)
    arrivals,                   \* number of kernel messages delivered so far
    horizon,                    \* last instant of the clock in this run
    scenario,                   \* "free", or the name of the scripted scenario
    calls,                      \* further API calls made by the driver, in order
    design,                     \* "unified" | "split" subscriber
    convergence_threshold_ms_,
    monitor_id_,
    running_,                   \* ConvergenceMonitor::running_
    state_,                     \* "IDLE" | "MONITORING"
    current_session_,           \* 0 = nullptr, else the session's id
    sessions,                   \* every ConvergenceSession ever constructed, by id
    completed_sessions_,        \* sequence of session ids
    session_counter_,
    total_route_events_,
    total_netem_triggers_,
    total_route_triggers_,
    recent_qdisc_events_,
    session_mutex_,             \* "" = free, else the owning thread
    netlink_running_,           \* NetlinkMonitor::running_
    netlink_monitor_,           \* NetlinkMonitor: descriptors and thread handles
    reader,                     \* reader threads: position and locals
    checker,                    \* convergence_checker_loop: position and locals
    main_pc,                    \* control thread
    log_running_,               \* Logger::running_
    log_queue_,
    consumer,                   \* log_processor_loop: position and entry in hand
    written,                    \* the log stream
    handed,                     \* every record passed to log_async / log_sync, in call order
    discarded,                  \* records dropped by log_async at capacity (one warning each)
    crashed                     \* the process died on a use of a destroyed session

envVars  == <<now, clock_step, script, arrivals, horizon, scenario, calls>>
cfgVars  == <<design, convergence_threshold_ms_, monitor_id_>>
sessVars == <<state_, current_session_, sessions, completed_sessions_, session_counter_>>
cntVars  == <<total_route_events_, total_netem_triggers_, total_route_triggers_>>
logVars  == <<log_running_, log_queue_, consumer, written, handed, discarded>>
vars == <<now, clock_step, script, arrivals, horizon, scenario, calls, design, convergence_threshold_ms_,
          monitor_id_, running_, state_, current_session_, sessions,
          completed_sessions_, session_counter_, total_route_events_,
          total_netem_triggers_, total_route_triggers_, recent_qdisc_events_,
          session_mutex_, netlink_running_, netlink_monitor_, reader, checker, main_pc,
          log_running_, log_queue_, consumer, written, handed, discarded, crashed>>

----------------------------------------------------------------------------
(* Bounds of the model *)

MaxArrivals == 2        \* kernel messages delivered in a free run
MaxTime == 3000         \* last instant of the clock in a free run
MaxCalls == 2           \* further API calls made by the driver
MaxNetlinkCalls == 3    \* calls made on a NetlinkMonitor driven on its own
MaxQdiscArrivals == 3   \* kernel messages of a burst, after its backlog
MaxRaceArrivals == 3    \* kernel messages of a run of racing readers
MaxSignalArrivals == 2  \* kernel messages before the signal of a shutdown run

(* Program constants *)

MAX_QDISC_EVENTS == 20
MAX_QUEUE_SIZE == 1000
CHECK_INTERVAL_MS == 1000
DEFAULT_THRESHOLD_MS == 3000

None == <<>>
Some(v) == <<v>>
has_value(o) == o # <<>>
value(o) == o[1]

Last(s) == s[Len(s)]

ReaderIds(d) == IF d = "unified" THEN {"unified"} ELSE {"route", "qdisc"}
AllReaderIds == {"unified", "route", "qdisc"}

IdleReader == [pc |-> "idle", timestamp |-> 0, event_type |-> "", interface |-> "",
               trigger_source |-> "", current_state |-> "", session |-> 0,
               total_events |-> 0, session_event_count |-> 0, offset |-> 0]

----------------------------------------------------------------------------
(* ConvergenceSession *)

\* ConvergenceSession::ConvergenceSession
ConvergenceSession(id, netem_time, source) ==
    [session_id |-> id, netem_event_time |-> netem_time, trigger_source |-> source,
     route_events |-> <<>>, last_route_event_time |-> None,
     convergence_time |-> None, is_converged |-> FALSE,
     convergence_detected_time |-> None, freed |-> FALSE]

\* variant of add_route_event that leaves last_route_event_time alone
add_route_event_keeps_time(s, timestamp, event_type) ==
    [s EXCEPT !.route_events = Append(@, [timestamp |-> timestamp, type |-> event_type,
                                          offset_from_netem |-> timestamp - s.netem_event_time])]

\* ConvergenceSession::add_route_event
add_route_event(s, timestamp, event_type) ==
    [s EXCEPT !.route_events = Append(@, [timestamp |-> timestamp, type |-> event_type,
                                          offset_from_netem |-> timestamp - s.netem_event_time]),
              !.last_route_event_time = Some(timestamp)]

\* quiet_time of ConvergenceSession::check_convergence at current_time
quiet_time(s, current_time) ==
    IF ~has_value(s.last_route_event_time)
    THEN current_time - s.netem_event_time
    ELSE current_time - value(s.last_route_event_time)

\* return value of ConvergenceSession::check_convergence
check_convergence_result(s, quiet_period_ms, current_time) ==
    \/ s.is_converged
    \/ quiet_time(s, current_time) >= quiet_period_ms

\* variant of check_convergence that stamps convergence_detected_time on
\* every call, also when the session has not been quiet for long enough
check_convergence_stamps(s, quiet_period_ms, current_time) ==
    IF s.is_converged THEN s
    ELSE IF quiet_time(s, current_time) >= quiet_period_ms
    THEN [s EXCEPT !.is_converged = TRUE,
                   !.convergence_detected_time = Some(current_time),
                   !.convergence_time =
                       IF has_value(s.last_route_event_time)
                       THEN Some(value(s.last_route_event_time) - s.netem_event_time)
                       ELSE Some(0)]
    ELSE [s EXCEPT !.convergence_detected_time = Some(current_time)]

\* variant of check_convergence that reports the quiet time of a session
\* without route events as its convergence time
check_convergence_quiet(s, quiet_period_ms, current_time) ==
    IF s.is_converged THEN s
    ELSE IF quiet_time(s, current_time) >= quiet_period_ms
    THEN [s EXCEPT !.is_converged = TRUE,
                   !.convergence_detected_time = Some(current_time),
                   !.convergence_time =
                       IF has_value(s.last_route_event_time)
                       THEN Some(value(s.last_route_event_time) - s.netem_event_time)
                       ELSE Some(quiet_time(s, current_time))]
    ELSE s

\* the session after ConvergenceSession::check_convergence
\* (convergence_check_count_, a private counter that nothing reads, is left out)
check_convergence(s, quiet_period_ms, current_time) ==
    IF s.is_converged THEN s
    ELSE IF quiet_time(s, current_time) >= quiet_period_ms
    THEN [s EXCEPT !.is_converged = TRUE,
                   !.convergence_detected_time = Some(current_time),
                   !.convergence_time =
                       IF has_value(s.last_route_event_time)
                       THEN Some(value(s.last_route_event_time) - s.netem_event_time)
                       ELSE Some(0)]
    ELSE s

\* ConvergenceSession::get_route_event_count
get_route_event_count(s) == Len(s.route_events)

\* ConvergenceSession::get_session_duration
get_session_duration(s, current_time) ==
    IF has_value(s.convergence_detected_time)
    THEN value(s.convergence_detected_time) - s.netem_event_time
    ELSE current_time - s.netem_event_time

----------------------------------------------------------------------------
(* NetlinkMonitor: message classification *)

\* NetlinkMonitor::get_message_type; the split subscriber maps RTM_GETQDISC
\* to QDISC_CHANGE, the unified one to QDISC_GET
get_message_type(d, nlmsg_type) ==
    CASE nlmsg_type = "RTM_NEWROUTE" -> "ROUTE_ADD"
      [] nlmsg_type = "RTM_DELROUTE" -> "ROUTE_DEL"
      [] nlmsg_type = "RTM_NEWQDISC" -> "QDISC_ADD"
      [] nlmsg_type = "RTM_DELQDISC" -> "QDISC_DEL"
      [] nlmsg_type = "RTM_GETQDISC" -> IF d = "unified" THEN "QDISC_GET" ELSE "QDISC_CHANGE"
      [] OTHER -> "UNKNOWN"

\* NetlinkMonitor::handle_route_message: is the route callback invoked
route_forwarded(d, nlmsg_type) ==
    get_message_type(d, nlmsg_type) \in {"ROUTE_ADD", "ROUTE_DEL"}

\* NetlinkMonitor::handle_qdisc_message: is the qdisc callback invoked
\* (only the unified subscriber drops kind "noqueue")
qdisc_forwarded(d, nlmsg_type, kind) ==
    IF d = "unified"
    THEN /\ get_message_type(d, nlmsg_type) \in {"QDISC_ADD", "QDISC_DEL", "QDISC_GET"}
         /\ kind # "noqueue"
    ELSE get_message_type(d, nlmsg_type) \in {"QDISC_ADD", "QDISC_DEL", "QDISC_CHANGE"}

\* NetlinkMessageParser::parse_qdisc_attributes: is_netem
is_netem(kind) == kind = "netem"

\* variant of is_netem_related_event that accepts a netem entry of any interface
is_netem_related_event_any_interface(netem, interface, event_type, recent) ==
    \/ netem
    \/ /\ event_type = "QDISC_DEL"
       /\ \E i \in 1..Len(recent) : recent[i].is_netem

\* ConvergenceMonitor::is_netem_related_event
is_netem_related_event(netem, interface, event_type, recent) ==
    \/ netem
    \/ /\ event_type = "QDISC_DEL"
       /\ \E i \in 1..Len(recent) :
              recent[i].interface = interface /\ recent[i].is_netem

\* variant of push_qdisc_event that evicts the newest of the old entries
push_qdisc_event_evicts_newest(recent, e) ==
    IF Len(recent) >= MAX_QDISC_EVENTS
    THEN Append(SubSeq(recent, 1, Len(recent) - 1), e)
    ELSE Append(recent, e)

\* the push onto recent_qdisc_events_ in ConvergenceMonitor::handle_qdisc_event
push_qdisc_event(recent, e) ==
    LET q == Append(recent, e)
    IN  IF Len(q) > MAX_QDISC_EVENTS THEN Tail(q) ELSE q

----------------------------------------------------------------------------
(* Logger: records and queue *)

\* Logger::create_monitoring_start_log
create_monitoring_start_log(threshold, id) ==
    [event_type |-> "monitoring_started", convergence_threshold_ms |-> threshold,
     monitor_id |-> id]

\* Logger::create_session_start_log
create_session_start_log(session_id, trigger_source, trigger_event_type, interface) ==
    [event_type |-> "session_started", session_id |-> session_id,
     trigger_source |-> trigger_source, trigger_event_type |-> trigger_event_type,
     interface |-> interface]

\* the netem_detected record built in ConvergenceMonitor::handle_qdisc_event
create_netem_log(event_type, interface) ==
    [event_type |-> "netem_detected", netem_event_type |-> event_type,
     interface |-> interface]

\* Logger::create_route_event_log
create_route_event_log(session_id, route_event_type, route_event_number, session_event_number, offset_from_trigger_ms) ==
    [event_type |-> "route_event", session_id |-> session_id,
     route_event_type |-> route_event_type, route_event_number |-> route_event_number,
     session_event_number |-> session_event_number,
     offset_from_trigger_ms |-> offset_from_trigger_ms]

\* Logger::create_session_completed_log; convergence_time_ms is written only
\* when the optional has a value
create_session_completed_log(session_id, convergence_time, route_events_count, session_duration_ms, threshold) ==
    [event_type |-> "session_completed", session_id |-> session_id,
     convergence_time_ms |-> convergence_time, route_events_count |-> route_events_count,
     session_duration_ms |-> session_duration_ms, convergence_threshold_ms |-> threshold]

\* Logger::create_monitoring_completed_log
create_monitoring_completed_log(threshold, netem_triggers, route_triggers, route_events, completed_count, id) ==
    [event_type |-> "monitoring_completed", convergence_threshold_ms |-> threshold,
     total_trigger_events |-> netem_triggers + route_triggers,
     netem_events_count |-> netem_triggers, route_events_in_trigger |-> route_triggers,
     total_route_events |-> route_events, completed_sessions_count |-> completed_count,
     monitor_id |-> id]

\* variant of Enqueue that drops the new record at capacity
Enqueue_drop_newest(q, rec) ==
    IF Len(q) >= MAX_QUEUE_SIZE THEN q ELSE Append(q, rec)

\* the queue after Logger::log_async: the oldest entry is dropped at capacity
Enqueue(q, rec) ==
    IF Len(q) >= MAX_QUEUE_SIZE THEN Append(Tail(q), rec) ELSE Append(q, rec)

\* the entries Logger::log_async drops from queue q, each with a warning on stdout
Dropped(q) ==
    IF Len(q) >= MAX_QUEUE_SIZE THEN <<Head(q)>> ELSE <<>>

\* queue_cv_.notify_one / notify_all: only a thread asleep in wait() is woken
Notify(c) == IF c.pc = "blocked" THEN [c EXCEPT !.pc = "test"] ELSE c

\* Logger::log_async called by a monitor thread.  queue_mutex_ is held by the
\* consumer between evaluating its wait predicate and going to sleep.
log_async(rec) ==
    /\ consumer.pc # "blocking"
    /\ log_queue_' = Enqueue(log_queue_, rec)
    /\ discarded' = discarded \o Dropped(log_queue_)
    /\ handed' = Append(handed, rec)
    /\ consumer' = Notify(consumer)
    /\ UNCHANGED <<log_running_, written>>

----------------------------------------------------------------------------
(* ConvergenceMonitor: the session engine *)

\* NetlinkMonitor::message_type_to_string (ASCII labels, see the header)
message_type_to_string(t) == t

\* variant of handle_trigger_event that counts every trigger as a route trigger
handle_trigger_event_counts_route(timestamp, event_type, interface, trigger_source) ==
    /\ session_mutex_ = ""
    /\ IF current_session_ # 0 /\ ~sessions[current_session_].is_converged
       THEN UNCHANGED <<sessVars, cntVars, logVars>>
       ELSE LET session_id == session_counter_ + 1
                kept == IF current_session_ # 0
                        THEN [sessions EXCEPT ![current_session_].freed = TRUE]
                        ELSE sessions
            IN  /\ session_counter_' = session_id
                /\ sessions' = Append(kept, ConvergenceSession(session_id, timestamp, trigger_source))
                /\ current_session_' = session_id
                /\ state_' = "MONITORING"
                /\ total_route_triggers_' = total_route_triggers_ + 1
                /\ UNCHANGED total_netem_triggers_
                /\ UNCHANGED <<completed_sessions_, total_route_events_>>
                /\ log_async(create_session_start_log(session_id, trigger_source,
                                                      event_type, interface))

\* ConvergenceMonitor::handle_trigger_event, one critical section on
\* session_mutex_.  A current session that is not converged makes the call
\* a no-op; otherwise current_session_ is assigned a new session, which
\* destroys the session it held.
handle_trigger_event(timestamp, event_type, interface, trigger_source) ==
    /\ session_mutex_ = ""
    /\ IF current_session_ # 0 /\ ~sessions[current_session_].is_converged
       THEN UNCHANGED <<sessVars, cntVars, logVars>>
       ELSE LET session_id == session_counter_ + 1
                kept == IF current_session_ # 0
                        THEN [sessions EXCEPT ![current_session_].freed = TRUE]
                        ELSE sessions
            IN  /\ session_counter_' = session_id
                /\ sessions' = Append(kept, ConvergenceSession(session_id, timestamp, trigger_source))
                /\ current_session_' = session_id
                /\ state_' = "MONITORING"
                /\ IF trigger_source = "netem"
                   THEN /\ total_netem_triggers_' = total_netem_triggers_ + 1
                        /\ UNCHANGED total_route_triggers_
                   ELSE /\ total_route_triggers_' = total_route_triggers_ + 1
                        /\ UNCHANGED total_netem_triggers_
                /\ UNCHANGED <<completed_sessions_, total_route_events_>>
                /\ log_async(create_session_start_log(session_id, trigger_source,
                                                      event_type, interface))

\* variant of finish_current_session that leaves state_ alone
finish_current_session_keeps_state ==
    IF current_session_ = 0
    THEN UNCHANGED <<sessVars, logVars>>
    ELSE LET completed_session == sessions[current_session_]
         IN  /\ completed_sessions_' = Append(completed_sessions_, current_session_)
             /\ log_async(create_session_completed_log(
                    completed_session.session_id, completed_session.convergence_time,
                    get_route_event_count(completed_session),
                    get_session_duration(completed_session, now),
                    convergence_threshold_ms_))
             /\ current_session_' = 0
             /\ UNCHANGED <<state_, sessions, session_counter_>>

\* ConvergenceMonitor::finish_current_session (the caller holds session_mutex_)
finish_current_session ==
    IF current_session_ = 0
    THEN UNCHANGED <<sessVars, logVars>>
    ELSE LET completed_session == sessions[current_session_]
         IN  /\ completed_sessions_' = Append(completed_sessions_, current_session_)
             /\ log_async(create_session_completed_log(
                    completed_session.session_id, completed_session.convergence_time,
                    get_route_event_count(completed_session),
                    get_session_duration(completed_session, now),
                    convergence_threshold_ms_))
             /\ current_session_' = 0
             /\ state_' = "IDLE"
             /\ UNCHANGED <<sessions, session_counter_>>

----------------------------------------------------------------------------
(* Reader threads: NetlinkMonitor loops calling the monitor's callbacks *)

SetReader(r, v) == reader' = [reader EXCEPT ![r] = v]

\* ConvergenceMonitor::on_route_event: the timestamp is taken, then
\* handle_route_event runs
on_route_event(r, ev) ==
    /\ SetReader(r, [IdleReader EXCEPT
           !.pc = "hre_state", !.timestamp = now,
           !.event_type = message_type_to_string(get_message_type(design, ev.nlmsg_type)),
           !.interface = ev.interface])
    /\ UNCHANGED <<sessVars, cntVars, logVars, recent_qdisc_events_>>

\* variant of on_qdisc_event that counts an event that is not netem-related
\* as a route event
on_qdisc_event_counts_unrelated(r, ev) ==
    LET event_type == message_type_to_string(get_message_type(design, ev.nlmsg_type))
        recent == push_qdisc_event(recent_qdisc_events_,
                      [timestamp |-> now, type |-> event_type,
                       interface |-> ev.interface, is_netem |-> is_netem(ev.kind)])
    IN  /\ recent_qdisc_events_' = recent
        /\ UNCHANGED <<sessVars, total_netem_triggers_, total_route_triggers_>>
        /\ IF is_netem_related_event(is_netem(ev.kind), ev.interface, event_type, recent)
           THEN /\ log_async(create_netem_log(event_type, ev.interface))
                /\ SetReader(r, [IdleReader EXCEPT
                       !.pc = "hqe_state", !.timestamp = now,
                       !.event_type = event_type, !.interface = ev.interface])
                /\ UNCHANGED total_route_events_
           ELSE /\ total_route_events_' = total_route_events_ + 1
                /\ UNCHANGED <<reader, logVars>>

\* variant of on_qdisc_event that does not log netem_detected
on_qdisc_event_silent(r, ev) ==
    LET event_type == message_type_to_string(get_message_type(design, ev.nlmsg_type))
        recent == push_qdisc_event(recent_qdisc_events_,
                      [timestamp |-> now, type |-> event_type,
                       interface |-> ev.interface, is_netem |-> is_netem(ev.kind)])
    IN  /\ recent_qdisc_events_' = recent
        /\ UNCHANGED <<sessVars, cntVars, logVars>>
        /\ IF is_netem_related_event(is_netem(ev.kind), ev.interface, event_type, recent)
           THEN SetReader(r, [IdleReader EXCEPT
                    !.pc = "hqe_state", !.timestamp = now,
                    !.event_type = event_type, !.interface = ev.interface])
           ELSE UNCHANGED reader

\* ConvergenceMonitor::on_qdisc_event up to the first use of session_mutex_:
\* the event is cached, classified and, if netem-related, logged
on_qdisc_event(r, ev) ==
    LET event_type == message_type_to_string(get_message_type(design, ev.nlmsg_type))
        recent == push_qdisc_event(recent_qdisc_events_,
                      [timestamp |-> now, type |-> event_type,
                       interface |-> ev.interface, is_netem |-> is_netem(ev.kind)])
    IN  /\ recent_qdisc_events_' = recent
        /\ UNCHANGED <<sessVars, cntVars>>
        /\ IF is_netem_related_event(is_netem(ev.kind), ev.interface, event_type, recent)
           THEN /\ log_async(create_netem_log(event_type, ev.interface))
                /\ SetReader(r, [IdleReader EXCEPT
                       !.pc = "hqe_state", !.timestamp = now,
                       !.event_type = event_type, !.interface = ev.interface])
           ELSE UNCHANGED <<reader, logVars>>

\* one kernel message read by reader r: NetlinkMonitor::process_netlink_message,
\* handle_route_message and handle_qdisc_message
Deliver(r, ev) ==
    IF route_forwarded(design, ev.nlmsg_type)
    THEN on_route_event(r, ev)
    ELSE IF qdisc_forwarded(design, ev.nlmsg_type, ev.kind)
    THEN on_qdisc_event(r, ev)
    ELSE UNCHANGED <<sessVars, cntVars, logVars, recent_qdisc_events_, reader>>

\* which reader thread receives a message of this type
Handles(r, ev) ==
    \/ r = "unified"
    \/ r = "route" /\ ev.nlmsg_type \in {"RTM_NEWROUTE", "RTM_DELROUTE"}
    \/ r = "qdisc" /\ ev.nlmsg_type \notin {"RTM_NEWROUTE", "RTM_DELROUTE"}

\* ConvergenceMonitor::handle_route_event, first critical section: read state_
hre_read_state(r) ==
    /\ reader[r].pc = "hre_state"
    /\ session_mutex_ = ""
    /\ SetReader(r, [reader[r] EXCEPT
           !.current_state = state_,
           !.pc = IF state_ = "IDLE" THEN "hre_trigger" ELSE "hre_lookup"])
    /\ UNCHANGED <<envVars, cfgVars, running_, sessVars, cntVars, recent_qdisc_events_,
                   session_mutex_, netlink_running_, netlink_monitor_, checker, main_pc, logVars, crashed>>

\* ConvergenceMonitor::handle_route_event: the route event as a trigger
hre_trigger(r) ==
    /\ reader[r].pc = "hre_trigger"
    /\ handle_trigger_event(reader[r].timestamp, reader[r].event_type,
                            reader[r].interface, "route")
    /\ SetReader(r, IdleReader)
    /\ UNCHANGED <<envVars, cfgVars, running_, recent_qdisc_events_,
                   session_mutex_, netlink_running_, netlink_monitor_, checker, main_pc, crashed>>

\* ConvergenceMonitor::handle_route_event, second critical section: the
\* state read earlier and the current session pointer
hre_lookup(r) ==
    /\ reader[r].pc = "hre_lookup"
    /\ session_mutex_ = ""
    /\ IF reader[r].current_state # "MONITORING" \/ current_session_ = 0
       THEN SetReader(r, IdleReader)
       ELSE SetReader(r, [reader[r] EXCEPT !.pc = "add", !.session = current_session_])
    /\ UNCHANGED <<envVars, cfgVars, running_, sessVars, cntVars, recent_qdisc_events_,
                   session_mutex_, netlink_running_, netlink_monitor_, checker, main_pc, logVars, crashed>>

\* variant of hqe_check_state that treats every netem event as a trigger
hqe_check_state_always_trigger(r) ==
    /\ reader[r].pc = "hqe_state"
    /\ session_mutex_ = ""
    /\ SetReader(r, [reader[r] EXCEPT !.pc = "hqe_trigger"])
    /\ UNCHANGED <<envVars, cfgVars, running_, sessVars, cntVars, recent_qdisc_events_,
                   session_mutex_, netlink_running_, netlink_monitor_, checker, main_pc, logVars, crashed>>

\* ConvergenceMonitor::handle_qdisc_event, critical section computing is_monitoring
hqe_check_state(r) ==
    /\ reader[r].pc = "hqe_state"
    /\ session_mutex_ = ""
    /\ LET is_monitoring == /\ state_ = "MONITORING"
                            /\ current_session_ # 0
                            /\ ~sessions[current_session_].is_converged
       IN  IF is_monitoring
           THEN SetReader(r, [reader[r] EXCEPT
                    !.pc = "add", !.session = current_session_,
                    !.event_type = "Netem(" \o reader[r].event_type \o ")"])
           ELSE SetReader(r, [reader[r] EXCEPT !.pc = "hqe_trigger"])
    /\ UNCHANGED <<envVars, cfgVars, running_, sessVars, cntVars, recent_qdisc_events_,
                   session_mutex_, netlink_running_, netlink_monitor_, checker, main_pc, logVars, crashed>>

\* ConvergenceMonitor::handle_qdisc_event: the netem event as a trigger
hqe_trigger(r) ==
    /\ reader[r].pc = "hqe_trigger"
    /\ handle_trigger_event(reader[r].timestamp, reader[r].event_type,
                            reader[r].interface, "netem")
    /\ SetReader(r, IdleReader)
    /\ UNCHANGED <<envVars, cfgVars, running_, recent_qdisc_events_,
                   session_mutex_, netlink_running_, netlink_monitor_, checker, main_pc, crashed>>

\* session->add_route_event(...) through the pointer taken earlier
session_add(r) ==
    /\ reader[r].pc = "add"
    /\ sessions' = [sessions EXCEPT ![reader[r].session] =
                       add_route_event(@, reader[r].timestamp, reader[r].event_type)]
    /\ SetReader(r, [reader[r] EXCEPT !.pc = "count"])
    /\ UNCHANGED <<envVars, cfgVars, running_, state_, current_session_,
                   completed_sessions_, session_counter_, cntVars, recent_qdisc_events_,
                   session_mutex_, netlink_running_, netlink_monitor_, checker, main_pc, logVars, crashed>>

\* total_route_events_.fetch_add(1) + 1, the offset and get_route_event_count()
session_count(r) ==
    /\ reader[r].pc = "count"
    /\ total_route_events_' = total_route_events_ + 1
    /\ SetReader(r, [reader[r] EXCEPT
           !.pc = "log",
           !.total_events = total_route_events_ + 1,
           !.offset = reader[r].timestamp - sessions[reader[r].session].netem_event_time,
           !.session_event_count = get_route_event_count(sessions[reader[r].session])])
    /\ UNCHANGED <<envVars, cfgVars, running_, sessVars, total_netem_triggers_,
                   total_route_triggers_, recent_qdisc_events_,
                   session_mutex_, netlink_running_, netlink_monitor_, checker, main_pc, logVars, crashed>>

\* logger_->log_async(route_log), the end of both handlers
session_log(r) ==
    /\ reader[r].pc = "log"
    /\ log_async(create_route_event_log(
           sessions[reader[r].session].session_id, reader[r].event_type,
           reader[r].total_events, reader[r].session_event_count, reader[r].offset))
    /\ SetReader(r, IdleReader)
    /\ UNCHANGED <<envVars, cfgVars, running_, sessVars, cntVars, recent_qdisc_events_,
                   session_mutex_, netlink_running_, netlink_monitor_, checker, main_pc, crashed>>

\* a handler dereferences a session that handle_trigger_event destroyed:
\* undefined behaviour.  Either the stale memory is still readable and the
\* handler goes on (the steps above), or the process dies here.
use_after_free(r) ==
    /\ reader[r].pc \in {"add", "count", "log"}
    /\ sessions[reader[r].session].freed
    /\ crashed' = TRUE
    /\ UNCHANGED <<envVars, cfgVars, running_, sessVars, cntVars, recent_qdisc_events_,
                   session_mutex_, netlink_running_, netlink_monitor_, reader, checker, main_pc, logVars>>

\* the reader loop sees running_ = false and returns
reader_exit(r) ==
    /\ reader[r].pc = "idle"
    /\ ~netlink_running_
    /\ SetReader(r, [IdleReader EXCEPT !.pc = "exited"])
    /\ UNCHANGED <<envVars, cfgVars, running_, sessVars, cntVars, recent_qdisc_events_,
                   session_mutex_, netlink_running_, netlink_monitor_, checker, main_pc, logVars, crashed>>

----------------------------------------------------------------------------
(* Checker thread: ConvergenceMonitor::convergence_checker_loop *)

NextWait == [pc |-> "wait", session |-> 0, deadline |-> now + CHECK_INTERVAL_MS]

\* the loop test, convergence_cv_.wait_for(1 s, !running_) and the first
\* critical section, which picks the current session if it is not converged
chk_wait ==
    /\ checker.pc = "wait"
    /\ IF ~running_
       THEN checker' = [pc |-> "done", session |-> 0, deadline |-> 0]
       ELSE /\ now >= checker.deadline
            /\ session_mutex_ = ""
            /\ IF /\ state_ = "MONITORING"
                  /\ current_session_ # 0
                  /\ ~sessions[current_session_].is_converged
               THEN checker' = [pc |-> "check", session |-> current_session_, deadline |-> 0]
               ELSE checker' = NextWait
    /\ UNCHANGED <<envVars, cfgVars, running_, sessVars, cntVars, recent_qdisc_events_,
                   session_mutex_, netlink_running_, netlink_monitor_, reader, main_pc, logVars, crashed>>

\* session->check_convergence(convergence_threshold_ms_), session_mutex_ not held
chk_check ==
    /\ checker.pc = "check"
    /\ sessions' = [sessions EXCEPT ![checker.session] =
                       check_convergence(@, convergence_threshold_ms_, now)]
    /\ IF check_convergence_result(sessions[checker.session], convergence_threshold_ms_, now)
       THEN checker' = [checker EXCEPT !.pc = "finish"]
       ELSE checker' = NextWait
    /\ UNCHANGED <<envVars, cfgVars, running_, state_, current_session_,
                   completed_sessions_, session_counter_, cntVars, recent_qdisc_events_,
                   session_mutex_, netlink_running_, netlink_monitor_, reader, main_pc, logVars, crashed>>

\* the second critical section: finish the session if it is still the
\* current one
chk_finish ==
    /\ checker.pc = "finish"
    /\ session_mutex_ = ""
    /\ IF /\ state_ = "MONITORING"
          /\ current_session_ = checker.session
          /\ sessions[current_session_].is_converged
       THEN finish_current_session
       ELSE UNCHANGED <<sessVars, logVars>>
    /\ checker' = NextWait
    /\ UNCHANGED <<envVars, cfgVars, running_, cntVars, recent_qdisc_events_,
                   session_mutex_, netlink_running_, netlink_monitor_, reader, main_pc, crashed>>

----------------------------------------------------------------------------
(* Logger consumer thread: Logger::log_processor_loop *)

\* variant of cons_test that takes the newest entry of the queue
cons_test_newest_first ==
    /\ consumer.pc = "test"
    /\ IF log_queue_ # <<>>
       THEN /\ consumer' = [pc |-> "write", entry |-> <<Last(log_queue_)>>]
            /\ log_queue_' = SubSeq(log_queue_, 1, Len(log_queue_) - 1)
       ELSE /\ consumer' = [consumer EXCEPT !.pc = IF log_running_ THEN "blocking" ELSE "exited"]
            /\ UNCHANGED log_queue_
    /\ UNCHANGED <<envVars, cfgVars, running_, sessVars, cntVars, recent_qdisc_events_,
                   session_mutex_, netlink_running_, netlink_monitor_, reader, checker, main_pc,
                   log_running_, written, handed, discarded, crashed>>

\* variant of cons_test that leaves the loop as soon as running_ is false
cons_test_exit_on_stop ==
    /\ consumer.pc = "test"
    /\ IF ~log_running_
       THEN consumer' = [consumer EXCEPT !.pc = "exited"] /\ UNCHANGED log_queue_
       ELSE IF log_queue_ # <<>>
       THEN /\ consumer' = [pc |-> "write", entry |-> <<Head(log_queue_)>>]
            /\ log_queue_' = Tail(log_queue_)
       ELSE /\ consumer' = [consumer EXCEPT !.pc = "blocking"]
            /\ UNCHANGED log_queue_
    /\ UNCHANGED <<envVars, cfgVars, running_, sessVars, cntVars, recent_qdisc_events_,
                   session_mutex_, netlink_running_, netlink_monitor_, reader, checker, main_pc,
                   log_running_, written, handed, discarded, crashed>>

\* the loop test and the wait predicate, evaluated under queue_mutex_: take
\* the front entry, or prepare to sleep, or leave the loop
cons_test ==
    /\ consumer.pc = "test"
    /\ IF log_queue_ # <<>>
       THEN /\ consumer' = [pc |-> "write", entry |-> <<Head(log_queue_)>>]
            /\ log_queue_' = Tail(log_queue_)
       ELSE /\ consumer' = [consumer EXCEPT !.pc = IF log_running_ THEN "blocking" ELSE "exited"]
            /\ UNCHANGED log_queue_
    /\ UNCHANGED <<envVars, cfgVars, running_, sessVars, cntVars, recent_qdisc_events_,
                   session_mutex_, netlink_running_, netlink_monitor_, reader, checker, main_pc,
                   log_running_, written, handed, discarded, crashed>>

\* queue_cv_.wait releases queue_mutex_ and sleeps
cons_block ==
    /\ consumer.pc = "blocking"
    /\ consumer' = [consumer EXCEPT !.pc = "blocked"]
    /\ UNCHANGED <<envVars, cfgVars, running_, sessVars, cntVars, recent_qdisc_events_,
                   session_mutex_, netlink_running_, netlink_monitor_, reader, checker, main_pc,
                   log_running_, log_queue_, written, handed, discarded, crashed>>

\* the entry in hand is written to the stream, outside queue_mutex_
cons_write ==
    /\ consumer.pc = "write"
    /\ written' = Append(written, consumer.entry[1])
    /\ consumer' = [pc |-> "test", entry |-> <<>>]
    /\ UNCHANGED <<envVars, cfgVars, running_, sessVars, cntVars, recent_qdisc_events_,
                   session_mutex_, netlink_running_, netlink_monitor_, reader, checker, main_pc,
                   log_running_, log_queue_, handed, discarded, crashed>>

----------------------------------------------------------------------------
(* NetlinkMonitor: descriptors, thread handles, start and stop *)

\* the members after NetlinkMonitor::NetlinkMonitor; joinable stands for
\* monitor_thread_.joinable() (both reader threads in the split design)
NetlinkConstructed(d) ==
    IF d = "unified"
    THEN [netlink_socket_fd_ |-> -1, epoll_fd_ |-> -1, shutdown_pipe_ |-> <<-1, -1>>,
          joinable |-> FALSE]
    ELSE [route_socket_fd_ |-> -1, qdisc_socket_fd_ |-> -1, joinable |-> FALSE]

\* the members after a successful NetlinkMonitor::start_monitoring
NetlinkStarted(d) ==
    IF d = "unified"
    THEN [netlink_socket_fd_ |-> 3, epoll_fd_ |-> 6, shutdown_pipe_ |-> <<4, 5>>,
          joinable |-> TRUE]
    ELSE [route_socket_fd_ |-> 3, qdisc_socket_fd_ |-> 4, joinable |-> TRUE]

\* variant of NetlinkMonitor::start_monitoring whose failure paths return
\* without closing what they opened
netlink_start_monitoring_leaks(ok) ==
    IF netlink_running_
    THEN /\ ok = TRUE
         /\ UNCHANGED <<netlink_running_, netlink_monitor_, reader, crashed>>
    ELSE \/ /\ ok = TRUE
            /\ netlink_running_' = TRUE
            /\ netlink_monitor_' = NetlinkStarted(design)
            /\ IF netlink_monitor_.joinable
               THEN crashed' = TRUE /\ UNCHANGED reader
               ELSE /\ reader' = [r \in ReaderIds(design) |-> IdleReader]
                    /\ UNCHANGED crashed
         \/ /\ ok = FALSE
            /\ netlink_monitor_' =
                   [NetlinkStarted(design) EXCEPT !.joinable = netlink_monitor_.joinable]
            /\ UNCHANGED <<netlink_running_, reader, crashed>>

\* NetlinkMonitor::start_monitoring.  ok is the return value.  Creating the
\* socket or the pipe can fail (early), so can epoll_create1 and epoll_ctl
\* (late).  Assigning a new thread to a monitor_thread_ that is still
\* joinable calls std::terminate.
netlink_start_monitoring(ok) ==
    IF netlink_running_
    THEN /\ ok = TRUE
         /\ UNCHANGED <<netlink_running_, netlink_monitor_, reader, crashed>>
    ELSE \/ /\ ok = TRUE
            /\ netlink_running_' = TRUE
            /\ netlink_monitor_' = NetlinkStarted(design)
            /\ IF netlink_monitor_.joinable
               THEN crashed' = TRUE /\ UNCHANGED reader
               ELSE /\ reader' = [r \in ReaderIds(design) |-> IdleReader]
                    /\ UNCHANGED crashed
         \/ /\ ok = FALSE
            /\ \/ netlink_monitor_' =
                      IF design = "unified"
                      THEN [netlink_monitor_ EXCEPT !.netlink_socket_fd_ = -1]
                      ELSE [netlink_monitor_ EXCEPT !.route_socket_fd_ = -1]
               \/ netlink_monitor_' =
                      [NetlinkConstructed(design) EXCEPT !.joinable = netlink_monitor_.joinable]
            /\ UNCHANGED <<netlink_running_, reader, crashed>>

\* NetlinkMonitor::request_shutdown (unified design): running_ is cleared
\* and the reader woken through the shutdown pipe; nothing is joined or
\* closed.  On a monitor that is not running the assignment changes nothing.
netlink_request_shutdown ==
    /\ netlink_running_' = FALSE
    /\ UNCHANGED <<netlink_monitor_, reader, crashed>>

\* NetlinkMonitor::stop_monitoring from the test of running_ to the join.
\* The unified design wakes the reader through the pipe; the split design
\* closes both sockets here.
netlink_stop_signal ==
    /\ netlink_running_
    /\ netlink_running_' = FALSE
    /\ netlink_monitor_' =
           IF design = "unified" THEN netlink_monitor_
           ELSE [NetlinkConstructed(design) EXCEPT !.joinable = netlink_monitor_.joinable]

\* NetlinkMonitor::stop_monitoring from the join to the return: the reader
\* threads are joined and, in the unified design, every descriptor is closed
netlink_stop_join ==
    /\ \A r \in ReaderIds(design) : reader[r].pc = "exited"
    /\ netlink_monitor_' = NetlinkConstructed(design)

----------------------------------------------------------------------------
(* Control thread: start_monitoring, stop_monitoring, print_statistics *)

\* variant of start_monitoring without the test of running_
start_monitoring_unguarded ==
    /\ running_' = TRUE
    /\ log_running_' = TRUE
    /\ consumer' = IF log_running_ THEN consumer ELSE [pc |-> "test", entry |-> <<>>]
    /\ log_queue_' = Enqueue(log_queue_,
           create_monitoring_start_log(convergence_threshold_ms_, monitor_id_))
    /\ discarded' = discarded \o Dropped(log_queue_)
    /\ handed' = Append(handed,
           create_monitoring_start_log(convergence_threshold_ms_, monitor_id_))
    /\ netlink_start_monitoring(TRUE)
    /\ checker' = NextWait
    /\ UNCHANGED written
    /\ UNCHANGED <<cfgVars, sessVars, cntVars, recent_qdisc_events_, session_mutex_>>

\* ConvergenceMonitor::start_monitoring: a no-op on a running monitor;
\* otherwise the logger, the readers and the checker are started and
\* monitoring_started is queued.  Logger::start leaves a running logger alone.
start_monitoring ==
    /\ IF running_
       THEN UNCHANGED <<running_, logVars, netlink_running_, netlink_monitor_, reader,
                        checker, crashed>>
       ELSE /\ running_' = TRUE
            /\ log_running_' = TRUE
            /\ consumer' = IF log_running_ THEN consumer ELSE [pc |-> "test", entry |-> <<>>]
            /\ log_queue_' = Enqueue(log_queue_,
                   create_monitoring_start_log(convergence_threshold_ms_, monitor_id_))
            /\ discarded' = discarded \o Dropped(log_queue_)
            /\ handed' = Append(handed,
                   create_monitoring_start_log(convergence_threshold_ms_, monitor_id_))
            /\ netlink_start_monitoring(TRUE)
            /\ checker' = NextWait
            /\ UNCHANGED written
    /\ UNCHANGED <<cfgVars, sessVars, cntVars, recent_qdisc_events_, session_mutex_>>

\* variant of stop_monitoring without the test of running_
stop_monitoring_unguarded ==
    /\ running_' = FALSE
    /\ main_pc' = "stop_netlink"
    /\ UNCHANGED <<cfgVars, sessVars, cntVars, recent_qdisc_events_, session_mutex_,
                   netlink_running_, netlink_monitor_, reader, checker, logVars, crashed>>

\* ConvergenceMonitor::stop_monitoring up to netlink_monitor_->stop_monitoring():
\* a no-op on a monitor that is not running, otherwise running_ is cleared
stop_monitoring ==
    /\ IF running_
       THEN running_' = FALSE /\ main_pc' = "stop_netlink"
       ELSE UNCHANGED <<running_, main_pc>>
    /\ UNCHANGED <<cfgVars, sessVars, cntVars, recent_qdisc_events_, session_mutex_,
                   netlink_running_, netlink_monitor_, reader, checker, logVars, crashed>>

\* main calls start_monitoring on the monitor it has constructed
Start ==
    /\ main_pc = "constructed"
    /\ start_monitoring
    /\ main_pc' = "run"
    /\ UNCHANGED envVars

\* start_monitoring is called again on the monitor, no stop in between
StartAgain ==
    /\ main_pc = "run"
    /\ Len(calls) < MaxCalls
    /\ start_monitoring
    /\ calls' = Append(calls, "start_monitoring")
    /\ UNCHANGED <<now, clock_step, script, arrivals, horizon, scenario, main_pc>>

\* stop_monitoring is called on a monitor that was never started or whose
\* stop_monitoring has returned
StopAgain ==
    /\ main_pc \in {"constructed", "stopped"}
    /\ Len(calls) < MaxCalls
    /\ stop_monitoring
    /\ calls' = Append(calls, "stop_monitoring")
    /\ UNCHANGED <<now, clock_step, script, arrivals, horizon, scenario>>

\* netlink_monitor_->stop_monitoring() up to its join; it returns at once
\* when the NetlinkMonitor is not running
stop_netlink ==
    /\ main_pc = "stop_netlink"
    /\ IF netlink_running_
       THEN netlink_stop_signal /\ main_pc' = "join_readers"
       ELSE UNCHANGED <<netlink_running_, netlink_monitor_>> /\ main_pc' = "join_checker"
    /\ UNCHANGED <<envVars, cfgVars, running_, sessVars, cntVars, recent_qdisc_events_,
                   session_mutex_, reader, checker, logVars, crashed>>

\* netlink_monitor_->stop_monitoring() from its join to its return
join_readers ==
    /\ main_pc = "join_readers"
    /\ netlink_stop_join
    /\ main_pc' = "join_checker"
    /\ UNCHANGED <<envVars, cfgVars, running_, sessVars, cntVars, recent_qdisc_events_,
                   session_mutex_, netlink_running_, reader, checker, logVars, crashed>>

\* convergence_cv_.notify_all and convergence_checker_thread_.join
join_checker ==
    /\ main_pc = "join_checker"
    /\ checker.pc = "done"
    /\ main_pc' = "print_statistics"
    /\ UNCHANGED <<envVars, cfgVars, running_, sessVars, cntVars, recent_qdisc_events_,
                   session_mutex_, netlink_running_, netlink_monitor_, reader, checker, logVars, crashed>>

\* ConvergenceMonitor::print_statistics, the block that takes session_mutex_:
\* with a session in progress it calls force_finish_session while holding it
print_statistics_lock ==
    /\ main_pc = "print_statistics"
    /\ session_mutex_ = ""
    /\ IF current_session_ # 0 /\ ~sessions[current_session_].is_converged
       THEN /\ session_mutex_' = "main"
            /\ main_pc' = "force_finish"
       ELSE /\ UNCHANGED session_mutex_
            /\ main_pc' = "log_final"
    /\ UNCHANGED <<envVars, cfgVars, running_, sessVars, cntVars, recent_qdisc_events_,
                   netlink_running_, netlink_monitor_, reader, checker, logVars, crashed>>

\* ConvergenceMonitor::force_finish_session locks session_mutex_, a
\* non-recursive std::mutex its own caller holds: undefined behaviour.  The
\* thread blocks on itself for ever, or lock() throws std::system_error and
\* stop_monitoring is left by the exception.
force_finish_session ==
    /\ main_pc = "force_finish"
    /\ session_mutex_ = "main"
    /\ \/ /\ main_pc' = "deadlocked"
          /\ UNCHANGED session_mutex_
       \/ /\ main_pc' = "threw"
          /\ session_mutex_' = ""
    /\ UNCHANGED <<envVars, cfgVars, running_, sessVars, cntVars, recent_qdisc_events_,
                   netlink_running_, netlink_monitor_, reader, checker, logVars, crashed>>

\* the rest of print_statistics: the final record goes through
\* Logger::log_sync, straight to the stream
print_statistics_log ==
    /\ main_pc = "log_final"
    /\ LET final_log == create_monitoring_completed_log(
               convergence_threshold_ms_, total_netem_triggers_, total_route_triggers_,
               total_route_events_, Len(completed_sessions_), monitor_id_)
       IN  /\ written' = Append(written, final_log)
           /\ handed' = Append(handed, final_log)
    /\ main_pc' = "logger_stop"
    /\ UNCHANGED <<envVars, cfgVars, running_, sessVars, cntVars, recent_qdisc_events_,
                   session_mutex_, netlink_running_, netlink_monitor_, reader, checker,
                   log_running_, log_queue_, consumer, discarded, crashed>>

\* Logger::stop: running_ is cleared and queue_cv_.notify_all is called,
\* neither under queue_mutex_
logger_stop ==
    /\ main_pc = "logger_stop"
    /\ log_running_' = FALSE
    /\ consumer' = Notify(consumer)
    /\ main_pc' = "join_logger"
    /\ UNCHANGED <<envVars, cfgVars, running_, sessVars, cntVars, recent_qdisc_events_,
                   session_mutex_, netlink_running_, netlink_monitor_, reader, checker,
                   log_queue_, written, handed, discarded, crashed>>

\* Logger::stop: log_thread_.join(); stop_monitoring returns
join_logger ==
    /\ main_pc = "join_logger"
    /\ consumer.pc = "exited"
    /\ main_pc' = "stopped"
    /\ UNCHANGED <<envVars, cfgVars, running_, sessVars, cntVars, recent_qdisc_events_,
                   session_mutex_, netlink_running_, netlink_monitor_, reader, checker, logVars, crashed>>

----------------------------------------------------------------------------
(* session_mutex_ *)

\* the steps a thread takes while it owns session_mutex_ through a
\* lock_guard: the critical sections of handle_route_event,
\* handle_qdisc_event, handle_trigger_event, convergence_checker_loop and
\* print_statistics
session_lock_guard ==
    \/ \E r \in ReaderIds(design) :
           \/ hre_read_state(r) \/ hre_trigger(r) \/ hre_lookup(r)
           \/ hqe_check_state(r) \/ hqe_trigger(r)
    \/ running_ /\ chk_wait
    \/ chk_finish
    \/ print_statistics_lock

----------------------------------------------------------------------------
(* Environment: the kernel's messages, the stop signal and the clock *)

Msg(t, i, k) == [nlmsg_type |-> t, interface |-> i, kind |-> k]
At(ms, m) == [at |-> ms, msg |-> m]
StopSignal == Msg("STOP", "", "")

\* the kernel messages of a free run
FreeInputs ==
    { Msg("RTM_NEWROUTE", "eth0", "N/A"),
      Msg("RTM_NEWQDISC", "eth0", "netem"),
      Msg("RTM_NEWQDISC", "eth0", "pfifo"),
      Msg("RTM_DELQDISC", "eth0", "unknown"),
      Msg("RTM_DELQDISC", "eth0", "noqueue") }

\* the scripted scenarios: inputs with their arrival times, the configured
\* threshold and the clock granularity
Scenarios ==
    [A |-> [script |-> << At(0, Msg("RTM_NEWQDISC", "eth0", "netem")),
                          At(50, Msg("RTM_DELROUTE", "eth0", "N/A")) >>,
            threshold |-> DEFAULT_THRESHOLD_MS, step |-> 500],
     B |-> [script |-> << At(0, Msg("RTM_NEWROUTE", "eth0", "N/A")),
                          At(100, Msg("RTM_DELROUTE", "eth1", "N/A")),
                          At(900, Msg("RTM_NEWROUTE", "eth0", "N/A")),
                          At(1800, Msg("RTM_NEWROUTE", "eth1", "N/A")) >>,
            threshold |-> 1000, step |-> 500],
     C |-> [script |-> << At(0, Msg("RTM_NEWQDISC", "eth0", "netem")),
                          At(500, Msg("RTM_NEWQDISC", "eth1", "netem")) >>,
            threshold |-> DEFAULT_THRESHOLD_MS, step |-> 500],
     E |-> [script |-> << At(0, Msg("RTM_NEWQDISC", "eth0", "netem")),
                          At(100, Msg("RTM_NEWROUTE", "eth0", "N/A")),
                          At(500, StopSignal) >>,
            threshold |-> DEFAULT_THRESHOLD_MS, step |-> 500],
     S |-> [script |-> << At(500, StopSignal) >>,
            threshold |-> DEFAULT_THRESHOLD_MS, step |-> 500],
     L |-> [script |-> << At(0, Msg("RTM_NEWROUTE", "eth0", "N/A")),
                          At(100, Msg("RTM_NEWROUTE", "eth0", "N/A")),
                          At(2000, Msg("RTM_NEWQDISC", "eth0", "netem")) >>,
            threshold |-> 1000, step |-> 500],
     Q |-> [script |-> << At(0, Msg("RTM_NEWROUTE", "eth0", "N/A")),
                          At(500, Msg("RTM_NEWROUTE", "eth0", "N/A")) >>,
            threshold |-> 1, step |-> 500],
     T_route |-> [script |-> << At(0, Msg("RTM_NEWROUTE", "eth0", "N/A")) >>,
                  threshold |-> 1000, step |-> 500],
     T_netem |-> [script |-> << At(0, Msg("RTM_NEWQDISC", "eth0", "netem")) >>,
                  threshold |-> 1000, step |-> 500]]

ScenarioNames == DOMAIN Scenarios

\* the clock of a scripted run stops one threshold and one checker period
\* after the last input
ScenarioHorizon(sc) ==
    Last(sc.script).at + sc.threshold + CHECK_INTERVAL_MS

\* kernel message ev reaches reader r, which is waiting in its loop
ArriveMsg(r, ev) ==
    /\ scenario \in {"free", "netlink"}
    /\ netlink_running_
    /\ reader[r].pc = "idle"
    /\ arrivals < MaxArrivals
    /\ Handles(r, ev)
    /\ Deliver(r, ev)
    /\ arrivals' = arrivals + 1
    /\ UNCHANGED <<now, clock_step, script, horizon, scenario, calls, cfgVars, running_,
                   session_mutex_, netlink_running_, netlink_monitor_, checker, main_pc, crashed>>

\* a kernel message of a free run reaches reader r
Arrive(r) == \E ev \in FreeInputs : ArriveMsg(r, ev)

\* the next scripted message arrives at its time, the handlers of the
\* earlier ones having returned
ScriptArrive(r) ==
    /\ script # <<>>
    /\ Head(script).msg # StopSignal
    /\ Head(script).at = now
    /\ netlink_running_
    /\ \A q \in ReaderIds(design) : reader[q].pc = "idle"
    /\ Handles(r, Head(script).msg)
    /\ Deliver(r, Head(script).msg)
    /\ script' = Tail(script)
    /\ arrivals' = arrivals + 1
    /\ UNCHANGED <<now, clock_step, horizon, scenario, calls, cfgVars, running_,
                   session_mutex_, netlink_running_, netlink_monitor_, checker, main_pc, crashed>>

\* the stop signal of a free run
Stop ==
    /\ scenario = "free"
    /\ main_pc = "run"
    /\ stop_monitoring
    /\ UNCHANGED envVars

\* the scripted stop signal
ScriptStop ==
    /\ script # <<>>
    /\ Head(script).msg = StopSignal
    /\ Head(script).at = now
    /\ \A q \in ReaderIds(design) : reader[q].pc = "idle"
    /\ main_pc = "run"
    /\ stop_monitoring
    /\ script' = Tail(script)
    /\ UNCHANGED <<now, clock_step, arrivals, horizon, scenario, calls>>

\* the instant after now: one clock_step later, or the time of the next
\* scripted input if that comes first
NextInstant ==
    IF script # <<>> /\ Head(script).at > now /\ Head(script).at < now + clock_step
    THEN Head(script).at
    ELSE now + clock_step

\* the clock advances; a scripted input is not overtaken
AdvanceClock ==
    /\ NextInstant <= horizon
    /\ script # <<>> => NextInstant <= Head(script).at
    /\ now' = NextInstant
    /\ UNCHANGED <<clock_step, script, arrivals, horizon, scenario, calls, cfgVars, running_,
                   sessVars, cntVars, recent_qdisc_events_, session_mutex_,
                   netlink_running_, netlink_monitor_, reader, checker, main_pc, logVars, crashed>>

----------------------------------------------------------------------------
(* Specifications *)

MonitorIds == {"monitor-uuid"}

\* the engine and the NetlinkMonitor after ConvergenceMonitor's constructor
ConstructedEngine ==
    /\ now = 0
    /\ arrivals = 0
    /\ calls = <<>>
    /\ monitor_id_ \in MonitorIds
    /\ running_ = FALSE
    /\ state_ = "IDLE"
    /\ current_session_ = 0
    /\ sessions = <<>>
    /\ completed_sessions_ = <<>>
    /\ session_counter_ = 0
    /\ total_route_events_ = 0
    /\ total_netem_triggers_ = 0
    /\ total_route_triggers_ = 0
    /\ recent_qdisc_events_ = <<>>
    /\ session_mutex_ = ""
    /\ netlink_running_ = FALSE
    /\ netlink_monitor_ = NetlinkConstructed(design)
    /\ reader = [r \in ReaderIds(design) |-> [IdleReader EXCEPT !.pc = "unstarted"]]
    /\ checker = [pc |-> "unstarted", session |-> 0, deadline |-> 0]
    /\ crashed = FALSE

\* the state after ConvergenceMonitor's constructor
Constructed ==
    /\ ConstructedEngine
    /\ main_pc = "constructed"
    /\ log_running_ = FALSE
    /\ log_queue_ = <<>>
    /\ consumer = [pc |-> "unstarted", entry |-> <<>>]
    /\ written = <<>>
    /\ handed = <<>>
    /\ discarded = <<>>

\* a free run: any messages at any time, stop at any time
Init ==
    /\ design \in {"unified", "split"}
    /\ Constructed
    /\ scenario = "free"
    /\ script = <<>>
    /\ clock_step = CHECK_INTERVAL_MS
    /\ horizon = MaxTime
    /\ convergence_threshold_ms_ = 1000

\* a scripted run
ScenarioInit ==
    /\ design = "unified"
    /\ Constructed
    /\ scenario \in ScenarioNames
    /\ script = Scenarios[scenario].script
    /\ clock_step = Scenarios[scenario].step
    /\ horizon = ScenarioHorizon(Scenarios[scenario])
    /\ convergence_threshold_ms_ = Scenarios[scenario].threshold

ReaderStep(r) ==
    \/ hre_read_state(r) \/ hre_trigger(r) \/ hre_lookup(r)
    \/ hqe_check_state(r) \/ hqe_trigger(r)
    \/ session_add(r) \/ session_count(r) \/ session_log(r)
    \/ reader_exit(r)

CheckerStep == chk_wait \/ chk_check \/ chk_finish

ConsumerStep == cons_test \/ cons_block \/ cons_write

EngineShutdownStep ==
    \/ stop_netlink \/ join_readers \/ join_checker
    \/ print_statistics_lock \/ force_finish_session \/ print_statistics_log
    \/ logger_stop

\* the clock of a scripted run: every input is handled at its arrival time
ScenarioAdvanceClock ==
    /\ \A r \in ReaderIds(design) : reader[r].pc \in {"unstarted", "idle", "exited"}
    /\ AdvanceClock

\* The engine in a free run.  The logger's consumer thread is not scheduled
\* here: it changes only log_queue_ and written, which no engine step reads.
Next ==
    /\ ~crashed
    /\ \/ Start
       \/ \E r \in ReaderIds(design) : Arrive(r) \/ ReaderStep(r) \/ use_after_free(r)
       \/ CheckerStep
       \/ Stop
       \/ EngineShutdownStep
       \/ AdvanceClock

\* The whole program on a scripted run
ScenarioNext ==
    \/ Start
    \/ StartAgain
    \/ StopAgain
    \/ \E r \in ReaderIds(design) : ScriptArrive(r) \/ ReaderStep(r)
    \/ CheckerStep
    \/ ConsumerStep
    \/ ScriptStop
    \/ EngineShutdownStep
    \/ join_logger
    \/ ScenarioAdvanceClock

Spec == Init /\ [][Next]_vars

ScenarioSpec == ScenarioInit /\ [][ScenarioNext]_vars

\* every thread that can take a step eventually takes one, the clock runs
\* and scripted inputs arrive
FairScenarioSpec ==
    /\ ScenarioSpec
    /\ WF_vars(\E r \in ReaderIds(design) : ScriptArrive(r) \/ ReaderStep(r))
    /\ WF_vars(CheckerStep)
    /\ WF_vars(ConsumerStep)
    /\ WF_vars(Start \/ ScriptStop \/ EngineShutdownStep \/ join_logger)
    /\ WF_vars(ScenarioAdvanceClock)

----------------------------------------------------------------------------
(* The Logger on its own: producers, the consumer thread and Logger::stop *)

\* the n-th record handed to the logger in a logger run
LoggedRecord(n) == create_route_event_log(1, "ROUTE_ADD", n, n, 0)

\* queue lengths a logger run starts from: empty, and one below capacity
Backlogs == {0, MAX_QUEUE_SIZE - 1}

\* a running Logger whose queue holds a backlog the consumer has not reached
LoggerInit ==
    /\ design = "unified"
    /\ ConstructedEngine
    /\ scenario = "logger"
    /\ script = <<>>
    /\ clock_step = CHECK_INTERVAL_MS
    /\ horizon = 0
    /\ convergence_threshold_ms_ = DEFAULT_THRESHOLD_MS
    /\ main_pc = "logging"
    /\ log_running_ = TRUE
    /\ consumer = [pc |-> "test", entry |-> <<>>]
    /\ \E n \in Backlogs : log_queue_ = [i \in 1..n |-> LoggedRecord(i)]
    /\ handed = log_queue_
    /\ written = <<>>
    /\ discarded = <<>>

\* a producer thread calls Logger::log_async
LogProduce ==
    /\ main_pc = "logging"
    /\ Len(calls) < MaxCalls
    /\ log_async(LoggedRecord(Len(handed) + 1))
    /\ calls' = Append(calls, "log_async")
    /\ UNCHANGED <<now, clock_step, script, arrivals, horizon, scenario, cfgVars, running_,
                   sessVars, cntVars, recent_qdisc_events_, session_mutex_,
                   netlink_running_, netlink_monitor_, reader, checker, main_pc, crashed>>

\* the owner calls Logger::stop
LogStop ==
    /\ main_pc = "logging"
    /\ main_pc' = "logger_stop"
    /\ UNCHANGED <<envVars, cfgVars, running_, sessVars, cntVars, recent_qdisc_events_,
                   session_mutex_, netlink_running_, netlink_monitor_, reader, checker,
                   logVars, crashed>>

LoggerNext ==
    \/ LogProduce
    \/ ConsumerStep
    \/ LogStop
    \/ logger_stop
    \/ join_logger

LoggerSpec == LoggerInit /\ [][LoggerNext]_vars

----------------------------------------------------------------------------
(* The unified NetlinkMonitor driven through its public interface: any
   sequence of start_monitoring, request_shutdown and stop_monitoring, with
   kernel messages arriving while it runs *)

NetlinkInit ==
    /\ design = "unified"
    /\ ConstructedEngine
    /\ scenario = "netlink"
    /\ script = <<>>
    /\ clock_step = CHECK_INTERVAL_MS
    /\ horizon = 0
    /\ convergence_threshold_ms_ = DEFAULT_THRESHOLD_MS
    /\ main_pc = "nl_idle"
    /\ log_running_ = FALSE
    /\ log_queue_ = <<>>
    /\ consumer = [pc |-> "unstarted", entry |-> <<>>]
    /\ written = <<>>
    /\ handed = <<>>
    /\ discarded = <<>>

\* what a call of the NetlinkMonitor's interface leaves alone
NetlinkCallFrame ==
    UNCHANGED <<now, clock_step, script, arrivals, horizon, scenario, cfgVars, running_,
                sessVars, cntVars, recent_qdisc_events_, session_mutex_, checker, logVars>>

\* a call of NetlinkMonitor::start_monitoring and its return value
NlStart ==
    /\ main_pc = "nl_idle"
    /\ Len(calls) < MaxNetlinkCalls
    /\ \E ok \in BOOLEAN :
           /\ netlink_start_monitoring(ok)
           /\ calls' = Append(calls, IF ok THEN "start" ELSE "start_failed")
    /\ UNCHANGED main_pc
    /\ NetlinkCallFrame

\* a call of NetlinkMonitor::request_shutdown
NlRequestShutdown ==
    /\ main_pc = "nl_idle"
    /\ Len(calls) < MaxNetlinkCalls
    /\ netlink_request_shutdown
    /\ calls' = Append(calls, "request_shutdown")
    /\ UNCHANGED main_pc
    /\ NetlinkCallFrame

\* a call of NetlinkMonitor::stop_monitoring: it returns at once when
\* running_ is false, otherwise it goes on to the join
NlStop ==
    /\ main_pc = "nl_idle"
    /\ Len(calls) < MaxNetlinkCalls
    /\ IF netlink_running_
       THEN /\ netlink_stop_signal
            /\ main_pc' = "nl_join"
            /\ UNCHANGED calls
       ELSE /\ UNCHANGED <<netlink_running_, netlink_monitor_, main_pc>>
            /\ calls' = Append(calls, "stop")
    /\ UNCHANGED <<reader, crashed>>
    /\ NetlinkCallFrame

\* the rest of that call of NetlinkMonitor::stop_monitoring
NlJoin ==
    /\ main_pc = "nl_join"
    /\ netlink_stop_join
    /\ main_pc' = "nl_idle"
    /\ calls' = Append(calls, "stop")
    /\ UNCHANGED <<netlink_running_, reader, crashed>>
    /\ NetlinkCallFrame

NetlinkNext ==
    /\ ~crashed
    /\ \/ NlStart
       \/ NlRequestShutdown
       \/ NlStop
       \/ NlJoin
       \/ \E r \in ReaderIds(design) : Arrive(r) \/ ReaderStep(r)

NetlinkSpec == NetlinkInit /\ [][NetlinkNext]_vars

----------------------------------------------------------------------------
(* The engine under a burst of qdisc and route messages: every message
   arrives within the first check interval, so the checker stays in its
   wait_for.  A run begins with a backlog of messages read one after the
   other, which fills recent_qdisc_events_. *)

QdiscInterfaces == {"eth0", "eth1"}

\* the kernel messages of a burst; kind "unknown" is a message without
\* TCA_KIND, RTM_NEWLINK stands for the types get_message_type does not know
QdiscInputs ==
    { Msg(t, i, k) : t \in {"RTM_NEWQDISC", "RTM_DELQDISC"}, i \in QdiscInterfaces,
                     k \in {"netem", "pfifo", "unknown"} }
    \cup { Msg("RTM_GETQDISC", "eth0", "pfifo"), Msg("RTM_GETQDISC", "eth0", "netem"),
           Msg("RTM_NEWROUTE", "eth0", "N/A"), Msg("RTM_NEWLINK", "eth0", "N/A") }

\* n messages that add a pfifo qdisc on eth0
PfifoBurst(n) == [i \in 1..n |-> At(0, Msg("RTM_NEWQDISC", "eth0", "pfifo"))]

\* the backlogs a burst begins with: none, one entry short of a full buffer,
\* and the same with a netem qdisc on eth1 as the oldest entry
QdiscBacklogs ==
    { <<>>,
      PfifoBurst(MAX_QDISC_EVENTS - 1),
      <<At(0, Msg("RTM_NEWQDISC", "eth1", "netem"))>> \o PfifoBurst(MAX_QDISC_EVENTS - 2) }

QdiscInit ==
    /\ design = "unified"
    /\ Constructed
    /\ scenario = "qdisc"
    /\ script \in QdiscBacklogs
    /\ clock_step = CHECK_INTERVAL_MS
    /\ horizon = 0
    /\ convergence_threshold_ms_ = DEFAULT_THRESHOLD_MS

\* what the arrival of a message at a reader leaves alone
ArriveFrame ==
    UNCHANGED <<now, clock_step, horizon, scenario, calls, cfgVars, running_,
                session_mutex_, netlink_running_, netlink_monitor_, checker, main_pc, crashed>>

\* the reader, back in its loop, reads the next message of the backlog
QdiscBacklog(r) ==
    /\ scenario = "qdisc"
    /\ script # <<>>
    /\ netlink_running_
    /\ reader[r].pc = "idle"
    /\ Handles(r, Head(script).msg)
    /\ Deliver(r, Head(script).msg)
    /\ script' = Tail(script)
    /\ UNCHANGED arrivals
    /\ ArriveFrame

\* message ev of the burst reaches reader r after the backlog
QdiscArriveMsg(r, ev) ==
    /\ scenario = "qdisc"
    /\ script = <<>>
    /\ netlink_running_
    /\ reader[r].pc = "idle"
    /\ arrivals < MaxQdiscArrivals
    /\ Handles(r, ev)
    /\ Deliver(r, ev)
    /\ arrivals' = arrivals + 1
    /\ UNCHANGED script
    /\ ArriveFrame

QdiscArrive(r) == \E ev \in QdiscInputs : QdiscArriveMsg(r, ev)

\* the handlers of a reader thread that is not asked to stop
HandlerStep(r) ==
    \/ hre_read_state(r) \/ hre_trigger(r) \/ hre_lookup(r)
    \/ hqe_check_state(r) \/ hqe_trigger(r)
    \/ session_add(r) \/ session_count(r) \/ session_log(r)

QdiscNext ==
    \/ Start
    \/ \E r \in ReaderIds(design) : QdiscBacklog(r) \/ QdiscArrive(r) \/ HandlerStep(r)

QdiscSpec == QdiscInit /\ [][QdiscNext]_vars

----------------------------------------------------------------------------
(* Readers racing within one session: a few route and netem messages arrive
   within one second of a run whose threshold is DEFAULT_THRESHOLD_MS, so no
   session converges and the checker's ticks change nothing (they are left
   out).  With the split subscriber the two readers run their handlers
   concurrently. *)

RaceInputs ==
    { Msg("RTM_NEWROUTE", "eth0", "N/A"), Msg("RTM_NEWQDISC", "eth0", "netem") }

RaceInit ==
    /\ design \in {"unified", "split"}
    /\ Constructed
    /\ scenario = "race"
    /\ script = <<>>
    /\ clock_step = CHECK_INTERVAL_MS
    /\ horizon = CHECK_INTERVAL_MS
    /\ convergence_threshold_ms_ = DEFAULT_THRESHOLD_MS

\* message ev reaches reader r, which is waiting in its loop
RaceArriveMsg(r, ev) ==
    /\ scenario = "race"
    /\ netlink_running_
    /\ reader[r].pc = "idle"
    /\ arrivals < MaxRaceArrivals
    /\ Handles(r, ev)
    /\ Deliver(r, ev)
    /\ arrivals' = arrivals + 1
    /\ UNCHANGED script
    /\ ArriveFrame

RaceArrive(r) == \E ev \in RaceInputs : RaceArriveMsg(r, ev)

RaceNext ==
    \/ Start
    \/ \E r \in ReaderIds(design) : RaceArrive(r) \/ HandlerStep(r)
    \/ AdvanceClock

RaceSpec == RaceInit /\ [][RaceNext]_vars

----------------------------------------------------------------------------
(* Shutdown by a signal: main() installs signal_handler for SIGINT and
   SIGTERM and blocks the signal in no thread, so the handler runs on
   whichever thread the kernel picks and calls stop_monitoring there, while
   main polls shutdown_requested, calls stop_monitoring itself and destroys
   the monitor.  calls holds the thread the handler runs on, followed by
   what main has done since; main_pc is the position of the handler's call.
   The handler's store to shutdown_requested and its test and store of
   running_ are one step. *)

SignalInputs == { Msg("RTM_NEWROUTE", "eth0", "N/A"), Msg("RTM_NEWQDISC", "eth0", "netem") }

\* the threads of the process once start_monitoring has returned
SignalThreads == {"main", "unified", "checker", "consumer"}

SignalInit ==
    /\ design = "unified"
    /\ Constructed
    /\ scenario = "signal"
    /\ script = <<>>
    /\ clock_step = CHECK_INTERVAL_MS
    /\ horizon = CHECK_INTERVAL_MS
    /\ convergence_threshold_ms_ = CHECK_INTERVAL_MS

\* thread t is inside signal_handler: its own code does not run until the
\* handler returns
InSignalHandler(t) == calls # <<>> /\ calls[1] = t /\ main_pc # "stopped"

\* message ev reaches the reader, which is waiting in its loop
SignalArriveMsg(r, ev) ==
    /\ scenario = "signal"
    /\ netlink_running_
    /\ reader[r].pc = "idle"
    /\ arrivals < MaxSignalArrivals
    /\ Handles(r, ev)
    /\ Deliver(r, ev)
    /\ arrivals' = arrivals + 1
    /\ UNCHANGED script
    /\ ArriveFrame

SignalArrive(r) == \E ev \in SignalInputs : SignalArriveMsg(r, ev)

\* signal_handler on thread t: shutdown_requested.store(true) and the call
\* of global_monitor->stop_monitoring()
signal_handler(t) ==
    /\ main_pc = "run"
    /\ calls = <<>>
    /\ stop_monitoring
    /\ calls' = <<t>>
    /\ UNCHANGED <<now, clock_step, script, arrivals, horizon, scenario>>

\* the handler's call reaches the join of the thread it runs on:
\* std::thread::join on the calling thread throws std::system_error, which
\* leaves the signal handler
self_join ==
    /\ calls # <<>>
    /\ \/ main_pc = "join_readers" /\ calls[1] \in ReaderIds(design)
       \/ main_pc = "join_checker" /\ calls[1] = "checker"
       \/ main_pc = "join_logger" /\ calls[1] = "consumer"
    /\ crashed' = TRUE
    /\ UNCHANGED <<envVars, cfgVars, running_, sessVars, cntVars, recent_qdisc_events_,
                   session_mutex_, netlink_running_, netlink_monitor_, reader, checker,
                   main_pc, logVars>>

\* main leaves its loop on shutdown_requested and calls stop_monitoring
MainStop ==
    /\ calls # <<>>
    /\ Len(calls) = 1
    /\ ~InSignalHandler("main")
    /\ stop_monitoring
    /\ calls' = Append(calls, "stop_monitoring")
    /\ UNCHANGED <<now, clock_step, script, arrivals, horizon, scenario>>

\* global_monitor.reset(): ~ConvergenceMonitor calls stop_monitoring, which
\* returns at once as running_ is false, and the members are destroyed.  If
\* the handler's call is still in progress it goes on in a destroyed object:
\* undefined behaviour, the process dies or the call goes on.
MainReset ==
    /\ Len(calls) = 2
    /\ ~running_
    /\ calls' = Append(calls, "reset")
    /\ IF main_pc = "stopped" THEN UNCHANGED crashed ELSE crashed' \in BOOLEAN
    /\ UNCHANGED <<now, clock_step, script, arrivals, horizon, scenario, cfgVars, running_,
                   sessVars, cntVars, recent_qdisc_events_, session_mutex_,
                   netlink_running_, netlink_monitor_, reader, checker, main_pc, logVars>>

SignalNext ==
    /\ ~crashed
    /\ \/ Start
       \/ \E r \in ReaderIds(design) : SignalArrive(r)
       \/ \E r \in ReaderIds(design) : ~InSignalHandler(r) /\ ReaderStep(r)
       \/ ~InSignalHandler("checker") /\ CheckerStep
       \/ ~InSignalHandler("consumer") /\ ConsumerStep
       \/ \E t \in SignalThreads : signal_handler(t)
       \/ EngineShutdownStep
       \/ join_logger
       \/ self_join
       \/ MainStop
       \/ MainReset
       \/ AdvanceClock

SignalSpec == SignalInit /\ [][SignalNext]_vars

----------------------------------------------------------------------------
(* Records handed to the logger *)

IsRec(rec, type, id) == rec.event_type = type /\ rec.session_id = id
HasSessionId(rec) == rec.event_type \in {"session_started", "route_event", "session_completed"}
Indexes(seq, type) == {i \in 1..Len(seq) : seq[i].event_type = type}
Count(seq, type, id) == Cardinality({i \in Indexes(seq, type) : seq[i].session_id = id})

\* C1: in the records handed to the logger, session_started(k) precedes every
\* route_event(k), and no route_event(k) follows session_completed(k)
C1_SessionRecordOrder ==
    \A i \in 1..Len(handed) :
        /\ handed[i].event_type \in {"route_event", "session_completed"} =>
               \E j \in 1..(i-1) : IsRec(handed[j], "session_started", handed[i].session_id)
        /\ handed[i].event_type = "route_event" =>
               ~\E j \in 1..(i-1) : IsRec(handed[j], "session_completed", handed[i].session_id)

\* C2: while state_ is MONITORING no new session is created, and a non-null
\* current_session_ is never replaced by another session
C2_SingleSessionRule ==
    [][ /\ state_ = "MONITORING" => session_counter_' = session_counter_
        /\ current_session_ # 0 => current_session_' \in {0, current_session_} ]_vars

\* C3: every session created is the current one or has been moved to
\* completed_sessions_ exactly once with exactly one session_completed
\* record, none is destroyed, and once print_statistics is through every
\* session is completed
C3_EverySessionFinalizedOnce ==
    /\ \A id \in 1..Len(sessions) :
           /\ ~sessions[id].freed
           /\ Cardinality({i \in 1..Len(completed_sessions_) : completed_sessions_[i] = id})
                  = (IF id = current_session_ THEN 0 ELSE 1)
           /\ Count(handed, "session_completed", id) = (IF id = current_session_ THEN 0 ELSE 1)
    /\ main_pc \in {"logger_stop", "join_logger", "stopped"} =>
           Len(completed_sessions_) = session_counter_

\* C4: a session_completed record with convergence_time_ms = c and
\* route_events_count = n has c >= 0, c = 0 if n = 0, and otherwise
\* c = timestamp of the session's n-th (its last) event - trigger time
C4_ConvergenceTimeOfRecord ==
    \A i \in Indexes(handed, "session_completed") :
        LET rec == handed[i]
            s == sessions[rec.session_id]
            n == rec.route_events_count
        IN  /\ has_value(rec.convergence_time_ms)
            /\ value(rec.convergence_time_ms) >= 0
            /\ n = 0 => value(rec.convergence_time_ms) = 0
            /\ n > 0 => value(rec.convergence_time_ms) =
                            s.route_events[n].timestamp - s.netem_event_time

----------------------------------------------------------------------------
(* Scripted scenarios *)

IsRouteEvent(rec) == rec.event_type = "route_event"
RouteRecords == SelectSeq(handed, IsRouteEvent)
SessionEventNumbers == [i \in 1..Len(RouteRecords) |-> RouteRecords[i].session_event_number]
EventTypes(seq) == [i \in 1..Len(seq) |-> seq[i].event_type]
IsPrefix(p, q) == Len(p) <= Len(q) /\ SubSeq(q, 1, Len(p)) = p
SessionCompleted(id, c, n) ==
    \E i \in Indexes(handed, "session_completed") :
        /\ handed[i].session_id = id
        /\ handed[i].convergence_time_ms = Some(c)
        /\ handed[i].route_events_count = n

\* C5: in scenario E (trigger at 0, route event at 100, stop at 500, quiet
\* period 3000) stop_monitoring is never stuck or left by an exception, and
\* once it is past print_statistics it has emitted session_completed with
\* convergence_time_ms = 100 and then monitoring_completed as the last record
C5_ShutdownMidSessionCompletes ==
    scenario = "E" =>
        /\ main_pc \notin {"deadlocked", "threw"}
        /\ main_pc \in {"logger_stop", "join_logger", "stopped"} =>
               /\ SessionCompleted(1, 100, 1)
               /\ Last(handed).event_type = "monitoring_completed"

\* C6: in the written stream monitoring_started is the first record and
\* monitoring_completed the last, every record handed to the logger before
\* it is written before it, and the two carry the same monitor_id
C6_StartedFirstCompletedLast ==
    /\ written # <<>> => written[1].event_type = "monitoring_started"
    /\ \A i \in Indexes(written, "monitoring_completed") :
           /\ i = Len(written)
           /\ SubSeq(written, 1, i) = SubSeq(handed, 1, i)
           /\ written[i].monitor_id = written[1].monitor_id

\* C7 as claimed: in scenario B the session_completed record has
\* convergence_time_ms = 1800 and route_events_count = 4, and the route_event
\* records carry session_event_number 1, 2, 3, 4
C7_ScenarioB_TriggerCounted ==
    scenario = "B" =>
        \A i \in Indexes(handed, "session_completed") :
            /\ handed[i].convergence_time_ms = Some(1800)
            /\ handed[i].route_events_count = 4
            /\ SessionEventNumbers = <<1, 2, 3, 4>>

C7_Safe ==
    scenario = "B" =>
        /\ session_counter_ <= 1
        /\ Cardinality(Indexes(handed, "session_started")) <= 1
        /\ Cardinality(Indexes(handed, "session_completed")) <= 1
        /\ IsPrefix(SessionEventNumbers, <<1, 2, 3>>)
        /\ \A i \in 1..Len(RouteRecords) : RouteRecords[i].session_id = 1
        /\ \A i \in Indexes(handed, "session_completed") :
               /\ handed[i].session_id = 1
               /\ handed[i].convergence_time_ms = Some(1800)
               /\ handed[i].route_events_count = 3
               /\ SessionEventNumbers = <<1, 2, 3>>

C7_Done ==
    /\ scenario = "B"
    /\ SessionCompleted(1, 1800, 3)
    /\ state_ = "IDLE"

\* C7: in scenario B (route events at 0, 100, 900, 1800, quiet period 1000)
\* exactly one session is started and completed; its session_completed
\* record has convergence_time_ms = 1800 and route_events_count = 3, and the
\* route_event records carry session_event_number 1, 2, 3 in order: the
\* triggering route event is not counted
C7_ScenarioB ==
    /\ []C7_Safe
    /\ (scenario = "B") ~> C7_Done

\* C8 as claimed: in scenario A session_started is handed to the logger
\* before the netem_detected record of the triggering qdisc event
C8_ScenarioA_StartedBeforeNetem ==
    scenario = "A" =>
        \A i \in Indexes(handed, "netem_detected") :
            \E j \in 1..(i-1) : IsRec(handed[j], "session_started", 1)

ScenarioA_Records ==
    << "monitoring_started", "netem_detected", "session_started", "route_event",
       "session_completed" >>

C8_Done ==
    /\ scenario = "A"
    /\ EventTypes(handed) = ScenarioA_Records
    /\ handed[3].session_id = 1 /\ handed[3].trigger_source = "netem"
    /\ handed[4].session_id = 1 /\ handed[4].session_event_number = 1
    /\ handed[4].offset_from_trigger_ms = 50

\* C8: in scenario A the netem_detected record of the triggering qdisc event
\* is handed to the logger before session_started of session 1, which is
\* handed before the first route_event of the session
C8_ScenarioA ==
    /\ [](scenario = "A" => IsPrefix(EventTypes(handed), ScenarioA_Records))
    /\ (scenario = "A") ~> C8_Done

\* C9 as claimed: in scenario C the session_completed record has
\* route_events_count = 2
C9_ScenarioC_TwoEvents ==
    scenario = "C" =>
        /\ Cardinality(Indexes(handed, "session_started")) <= 1
        /\ Cardinality(Indexes(handed, "netem_detected")) <= 2
        /\ \A i \in Indexes(handed, "session_completed") :
               handed[i].route_events_count = 2

ScenarioC_Records ==
    << "monitoring_started", "netem_detected", "session_started", "netem_detected",
       "route_event", "session_completed" >>

C9_Done ==
    /\ scenario = "C"
    /\ EventTypes(handed) = ScenarioC_Records
    /\ handed[2].interface = "eth0" /\ handed[4].interface = "eth1"
    /\ IsRec(handed[5], "route_event", 1)
    /\ handed[5].route_event_type = "Netem(QDISC_ADD)"
    /\ handed[5].session_event_number = 1
    /\ IsRec(handed[6], "session_completed", 1)
    /\ handed[6].route_events_count = 1
    /\ session_counter_ = 1

\* C9: in scenario C (netem QdiscAdd on eth0 at 0 and on eth1 at 500, no
\* route events) there is one session_started and one netem_detected per
\* qdisc arrival, the second qdisc event is appended to session 1 as its
\* only event, and session_completed has route_events_count = 1
C9_ScenarioC ==
    /\ [](scenario = "C" => IsPrefix(EventTypes(handed), ScenarioC_Records))
    /\ (scenario = "C") ~> C9_Done

TriggerOnly == {"T_route", "T_netem"}

C10_Done ==
    /\ scenario \in TriggerOnly
    /\ SessionCompleted(1, 0, 0)
    /\ state_ = "IDLE"
    /\ current_session_ = 0

\* C10: a trigger followed by no further events, the checker ticking and the
\* monitor not stopped: eventually, and not before quiet_period_ms have
\* elapsed since the trigger, session_completed is emitted with
\* convergence_time_ms = 0 and route_events_count = 0 and the monitor is
\* Idle again with no current session
C10_TriggerOnlyCompletes ==
    /\ [](scenario \in TriggerOnly =>
            \A i \in Indexes(handed, "session_completed") :
                /\ handed[i].convergence_time_ms = Some(0)
                /\ handed[i].route_events_count = 0
                /\ now >= sessions[handed[i].session_id].netem_event_time
                              + convergence_threshold_ms_)
    /\ (scenario \in TriggerOnly) ~> C10_Done

----------------------------------------------------------------------------
(* Boundaries and the logger *)

\* the instant before event i of session s: the previous event, or the trigger
PreviousInstant(s, i) ==
    IF i = 1 THEN s.netem_event_time ELSE s.route_events[i-1].timestamp

\* C11: with the threshold at 1 ms no session holds an event that came 1 ms
\* or more after the event before it (or after the trigger): such an event
\* starts a new session
C11_QuietPeriodOne ==
    convergence_threshold_ms_ = 1 =>
        \A k \in 1..Len(sessions) :
            \A i \in 1..Len(sessions[k].route_events) :
                sessions[k].route_events[i].timestamp - PreviousInstant(sessions[k], i) < 1

\* the records of a logger run are numbered in the order they are handed over
Number(rec) == rec.route_event_number
InHand == IF consumer.entry = <<>> THEN <<>> ELSE <<consumer.entry[1]>>

\* seq holds records handed to the logger, in the order they were handed
InHandedOrder(seq) ==
    /\ \A i \in 1..Len(seq) : Number(seq[i]) \in 1..Len(handed) /\ handed[Number(seq[i])] = seq[i]
    /\ \A i \in 1..(Len(seq) - 1) : Number(seq[i]) < Number(seq[i+1])

\* C12: the consumer writes the records in the order log_async received
\* them: the stream, then the entry in the consumer's hand, then the queue
\* hold records in the order they were handed over
C12_WrittenInInsertionOrder ==
    scenario = "logger" => InHandedOrder(written \o InHand \o log_queue_)

C12_Witness ==
    /\ scenario = "logger"
    /\ Len(written) >= 2
    /\ discarded # <<>>
    /\ Len(calls) = MaxCalls

\* C13: the queue never holds more than MAX_QUEUE_SIZE records; a log_async
\* call on a queue at capacity discards exactly the oldest queued record and
\* appends the new one at the tail; below capacity it discards nothing
C13_QueueBounded ==
    /\ [](Len(log_queue_) <= MAX_QUEUE_SIZE)
    /\ [][ handed' # handed =>
             IF Len(log_queue_) = MAX_QUEUE_SIZE
             THEN /\ log_queue_' = Append(Tail(log_queue_), Last(handed'))
                  /\ discarded' = Append(discarded, Head(log_queue_))
             ELSE /\ log_queue_' = Append(log_queue_, Last(handed'))
                  /\ discarded' = discarded ]_vars

C13_Witness ==
    /\ scenario = "logger"
    /\ Len(log_queue_) = MAX_QUEUE_SIZE
    /\ Len(discarded) = 1
    /\ discarded[1] = LoggedRecord(1)
    /\ Last(log_queue_) = Last(handed)

Records(seq) == {seq[i] : i \in 1..Len(seq)}

\* C14: when Logger::stop has returned the queue is empty and every record
\* handed to log_async that overflow did not discard is in the stream
C14_StopDrains ==
    (scenario = "logger" /\ main_pc = "stopped") =>
        /\ log_queue_ = <<>>
        /\ consumer.entry = <<>>
        /\ Len(written) + Len(discarded) = Len(handed)
        /\ Records(handed) \subseteq Records(written) \cup Records(discarded)

C14_Witness ==
    /\ scenario = "logger"
    /\ main_pc = "stopped"
    /\ Len(handed) = MAX_QUEUE_SIZE + 1
    /\ Len(written) = MAX_QUEUE_SIZE
    /\ Len(discarded) = 1

----------------------------------------------------------------------------
(* Repeated calls of start_monitoring and stop_monitoring *)

\* the driver has just made the call named api
Called(api) == calls' # calls /\ Last(calls') = api

\* C15: start_monitoring called again on a running monitor changes nothing:
\* no record, no thread started, session state and counters as before
C15_SecondStartNoOp ==
    [][ Called("start_monitoring") =>
            UNCHANGED <<cfgVars, running_, sessVars, cntVars, recent_qdisc_events_,
                        session_mutex_, netlink_running_, netlink_monitor_, reader,
                        checker, main_pc, logVars, crashed>> ]_vars

C15_Witness ==
    /\ calls # <<>>
    /\ Last(calls) = "start_monitoring"
    /\ running_
    /\ current_session_ # 0
    /\ Cardinality(Indexes(handed, "monitoring_started")) = 1

\* C16: stop_monitoring called on a monitor that was never started, or whose
\* stop_monitoring has returned, changes nothing: no record, nothing joined
C16_StopStoppedNoOp ==
    [][ Called("stop_monitoring") =>
            UNCHANGED <<cfgVars, running_, sessVars, cntVars, recent_qdisc_events_,
                        session_mutex_, netlink_running_, netlink_monitor_, reader,
                        checker, main_pc, logVars, crashed>> ]_vars

C16_Witness ==
    /\ calls # <<>>
    /\ Last(calls) = "stop_monitoring"
    /\ main_pc = "stopped"
    /\ Cardinality(Indexes(handed, "monitoring_completed")) = 1

----------------------------------------------------------------------------
(* NetlinkMonitor *)

\* a call of NetlinkMonitor::stop_monitoring has just returned, and a
\* start_monitoring before it succeeded
StopReturnedAfterStart ==
    /\ scenario = "netlink"
    /\ main_pc = "nl_idle"
    /\ calls # <<>>
    /\ Last(calls) = "stop"
    /\ \E i \in 1..Len(calls) : calls[i] = "start"

\* C17: whenever stop_monitoring, called on the unified NetlinkMonitor after
\* a successful start, has returned, the reader thread has left its loop and
\* been joined and the socket, epoll and pipe descriptors are closed (-1)
C17_StopJoinsAndCloses ==
    StopReturnedAfterStart =>
        /\ \A r \in ReaderIds(design) : reader[r].pc = "exited"
        /\ netlink_monitor_ = NetlinkConstructed(design)

\* C18: a qdisc message of kind "noqueue" that reaches a reader is dropped:
\* no record, no session started or extended, no counter changed, nothing
\* inserted into recent_qdisc_events_, the reader back in its loop
C18_NoqueueDropped ==
    [][ \A r \in ReaderIds(design) : \A ev \in FreeInputs :
            (ev.kind = "noqueue" /\ ArriveMsg(r, ev)) =>
                UNCHANGED <<sessVars, cntVars, logVars, recent_qdisc_events_, reader>> ]_vars


\* the call force_finish_session(reason) made by print_statistics is over:
\* the control thread is blocked in it for ever or has left it by an exception
ForceFinishCalled == main_pc \in {"deadlocked", "threw"}

\* the session force_finish_session was called for: still the current one,
\* or the last one moved to completed_sessions_
ForceFinished ==
    IF current_session_ # 0 THEN current_session_ ELSE Last(completed_sessions_)

\* C19: once force_finish_session has been called for the session in
\* progress, a session_completed record of that session has been handed to
\* the logger and it carries a reason field
C19_ForceFinishRecordsReason ==
    ForceFinishCalled =>
        \E i \in Indexes(handed, "session_completed") :
            /\ handed[i].session_id = ForceFinished
            /\ "reason" \in DOMAIN handed[i]

\* C20: once force_finish_session has been called, the session it was
\* called for is marked converged and has a convergence_time
C20_ForceFinishedIsConverged ==
    ForceFinishCalled =>
        /\ sessions[ForceFinished].is_converged
        /\ has_value(sessions[ForceFinished].convergence_time)

\* C21: whenever session_mutex_ is not held, state_ is MONITORING exactly
\* when current_session_ is not null
C21_MonitoringIffSession ==
    session_mutex_ = "" => (state_ = "MONITORING" <=> current_session_ # 0)

\* a session has been finished and the monitor is back in IDLE with no
\* current session, the mutex free
C21_Witness ==
    /\ session_mutex_ = ""
    /\ completed_sessions_ # <<>>
    /\ state_ = "IDLE"
    /\ current_session_ = 0

\* C22: once a session's is_converged flag is true, no step appends to its
\* route_events or changes its last_route_event_time
C22_ConvergedSessionFrozen ==
    [][ \A id \in 1..Len(sessions) :
            sessions[id].is_converged =>
                /\ sessions'[id].route_events = sessions[id].route_events
                /\ sessions'[id].last_route_event_time = sessions[id].last_route_event_time ]_vars

\* C23: a route event delivered to handle_route_event does not return without
\* effect: the call of handle_trigger_event made for it creates a session, and
\* past the state test it goes on to add_route_event
C23_RouteEventHasEffect ==
    [][ \A r \in ReaderIds(design) :
            /\ (reader[r].pc = "hre_trigger" /\ reader'[r].pc = "idle") =>
                   /\ session_counter_' = session_counter_ + 1
                   /\ sessions'[current_session_'].netem_event_time = reader[r].timestamp
            /\ reader[r].pc = "hre_lookup" => reader'[r].pc \in {"hre_lookup", "add"} ]_vars

\* the time session s has been idle at instant t: since its last event if it
\* has one, since its trigger otherwise
IdleTime(s, t) ==
    IF s.route_events # <<>> THEN t - value(s.last_route_event_time)
    ELSE t - s.netem_event_time

\* the checker's call of check_convergence returns in this step
CheckReturns == checker.pc = "check" /\ checker'.pc # "check"

\* C24: check_convergence(q) called by the checker at time now on a session
\* returns true iff the session has been idle for q or more; returning true
\* it sets is_converged, convergence_detected_time = now and convergence_time
\* = last_route_event_time - trigger time (0 with no events); returning false
\* it leaves the session as it was; and the checker moves a session to
\* completed_sessions_ only after the call returned true for it
C24_CheckConvergence ==
    [][ /\ CheckReturns =>
               LET s == sessions[checker.session]
                   t == sessions'[checker.session]
                   returned == checker'.pc = "finish"
               IN  /\ ~s.is_converged
                   /\ returned <=> IdleTime(s, now) >= convergence_threshold_ms_
                   /\ returned =>
                          /\ t.is_converged
                          /\ t.convergence_detected_time = Some(now)
                          /\ t.convergence_time =
                                 IF s.route_events # <<>>
                                 THEN Some(value(s.last_route_event_time) - s.netem_event_time)
                                 ELSE Some(0)
                          /\ t.route_events = s.route_events
                          /\ t.last_route_event_time = s.last_route_event_time
                   /\ ~returned => t = s
        /\ completed_sessions_' # completed_sessions_ =>
               /\ checker.pc = "finish"
               /\ completed_sessions_' = Append(completed_sessions_, checker.session)
               /\ sessions[checker.session].is_converged ]_vars

\* check_convergence has returned true for a session with route events whose
\* last event came after the trigger
C24_Witness ==
    /\ checker.pc = "finish"
    /\ sessions[checker.session].route_events # <<>>
    /\ sessions[checker.session].is_converged
    /\ value(sessions[checker.session].convergence_time) > 0

\* C25: the sessions created so far have the ids 1, 2, 3, ... in order of
\* creation, session_counter_ being the last id given, and
\* completed_sessions_ is in strictly increasing order of id and
\* non-decreasing order of trigger time
C25_SessionIdsIncrease ==
    /\ session_counter_ = Len(sessions)
    /\ \A i \in 1..Len(sessions) : sessions[i].session_id = i
    /\ \A i, j \in 1..Len(completed_sessions_) :
           i < j =>
               /\ completed_sessions_[i] < completed_sessions_[j]
               /\ sessions[completed_sessions_[i]].netem_event_time
                      <= sessions[completed_sessions_[j]].netem_event_time

\* qdisc message ev of a burst is read by reader r in this step
QdiscDelivered(r, ev) ==
    /\ ev.nlmsg_type \in {"RTM_NEWQDISC", "RTM_DELQDISC", "RTM_GETQDISC"}
    /\ \/ QdiscArriveMsg(r, ev)
       \/ script # <<>> /\ ev = Head(script).msg /\ QdiscBacklog(r)

\* C26: a qdisc event is treated as netem-related (logged as netem_detected
\* and passed on to the session logic) if and only if its kind is netem, or
\* it is a QDISC_DEL and some entry now in recent_qdisc_events_ has the same
\* interface and is_netem true
C26_NetemRelatedIff ==
    [][ \A r \in ReaderIds(design) : \A ev \in QdiscInputs :
            QdiscDelivered(r, ev) =>
                LET related ==
                        \/ ev.kind = "netem"
                        \/ /\ ev.nlmsg_type = "RTM_DELQDISC"
                           /\ \E i \in 1..Len(recent_qdisc_events_') :
                                  /\ recent_qdisc_events_'[i].interface = ev.interface
                                  /\ recent_qdisc_events_'[i].is_netem
                IN  /\ related <=> reader'[r].pc = "hqe_state"
                    /\ related <=> /\ Len(handed') = Len(handed) + 1
                                   /\ Last(handed').event_type = "netem_detected"
                    /\ ~related => reader'[r].pc = "idle" ]_vars

\* a QDISC_DEL that is not netem itself has been classified netem-related
\* because of an earlier netem entry on its interface
C26_Witness ==
    \E r \in ReaderIds(design) :
        /\ reader[r].pc = "hqe_state"
        /\ reader[r].event_type = "QDISC_DEL"
        /\ Last(recent_qdisc_events_).interface = reader[r].interface
        /\ ~Last(recent_qdisc_events_).is_netem
        /\ Last(handed).event_type = "netem_detected"

\* the observation handle_qdisc_event stores for message ev
Observation(ev) ==
    [timestamp |-> now, type |-> get_message_type(design, ev.nlmsg_type),
     interface |-> ev.interface, is_netem |-> ev.kind = "netem"]

\* C27: recent_qdisc_events_ never holds more than MAX_QDISC_EVENTS entries;
\* every qdisc event delivered to the engine is appended at the end, and when
\* the buffer was full exactly its oldest entry is evicted, so the buffer is
\* the most recent min(n, MAX_QDISC_EVENTS) observations in arrival order;
\* no other step changes the buffer
C27_RecentQdiscEvents ==
    /\ [](Len(recent_qdisc_events_) <= MAX_QDISC_EVENTS)
    /\ [][ /\ \A r \in ReaderIds(design) : \A ev \in QdiscInputs :
                  QdiscDelivered(r, ev) =>
                      recent_qdisc_events_' =
                          IF Len(recent_qdisc_events_) < MAX_QDISC_EVENTS
                          THEN Append(recent_qdisc_events_, Observation(ev))
                          ELSE Append(Tail(recent_qdisc_events_), Observation(ev))
           /\ (~\E r \in ReaderIds(design) : \E ev \in QdiscInputs : QdiscDelivered(r, ev)) =>
                  UNCHANGED recent_qdisc_events_ ]_vars

\* a 21st observation has been pushed: the buffer is full and the netem
\* entry that was its oldest is gone
C27_Witness ==
    /\ scenario = "qdisc"
    /\ Len(recent_qdisc_events_) = MAX_QDISC_EVENTS
    /\ total_netem_triggers_ = 1
    /\ \A i \in 1..Len(recent_qdisc_events_) : ~recent_qdisc_events_[i].is_netem

NotNetemRelated(ev, buffer) ==
    /\ ev.kind # "netem"
    /\ ev.nlmsg_type = "RTM_DELQDISC" =>
           \A i \in 1..Len(buffer) : ~(buffer[i].interface = ev.interface /\ buffer[i].is_netem)

\* C29: a qdisc event that is not netem-related is pushed onto
\* recent_qdisc_events_ and otherwise dropped: state_, current_session_, the
\* sessions, completed_sessions_, session_counter_ and the three counters are
\* unchanged, no record is handed to the logger, and the handler has returned
C29_UnrelatedQdiscDropped ==
    [][ \A r \in ReaderIds(design) : \A ev \in QdiscInputs :
            (QdiscDelivered(r, ev) /\ NotNetemRelated(ev, recent_qdisc_events_')) =>
                /\ UNCHANGED <<sessVars, cntVars, logVars>>
                /\ Last(recent_qdisc_events_') = Observation(ev)
                /\ reader'[r].pc = "idle" ]_vars

\* qdisc events that are not netem-related have been dropped while a session
\* was in progress: the buffer's last entries are not netem and the session
\* has no event
C29_Witness ==
    /\ scenario = "qdisc"
    /\ script = <<>>
    /\ arrivals = 2
    /\ state_ = "MONITORING"
    /\ Len(recent_qdisc_events_) >= 2
    /\ ~Last(recent_qdisc_events_).is_netem
    /\ Last(recent_qdisc_events_).type = "QDISC_DEL"
    /\ sessions[current_session_].route_events = <<>>
    /\ \A r \in ReaderIds(design) : reader[r].pc = "idle"
    /\ Len(handed) = 3

\* the checker takes a step of a tick: it wakes up from wait_for with
\* running_ set, or its call of check_convergence returns
CheckerTicks ==
    \/ checker.pc = "wait" /\ checker' # checker /\ checker'.pc \in {"wait", "check"}
    \/ CheckReturns

C31_TimestampsNonDecreasing ==
    \A id \in 1..Len(sessions) :
        \A i, j \in 1..Len(sessions[id].route_events) :
            i < j => sessions[id].route_events[i].timestamp <= sessions[id].route_events[j].timestamp

\* the positions in handed of the route_event records of session id
RouteRecordsOf(id) == {i \in Indexes(handed, "route_event") : handed[i].session_id = id}

\* C32: the route_event records of a session carry the session_event_number
\* values 1, 2, ..., n in the order they were handed to the logger, and no two
\* route_event records of the run have the same route_event_number
C32_EventNumbers ==
    /\ \A id \in 1..Len(sessions) : \A i \in RouteRecordsOf(id) :
           handed[i].session_event_number = Cardinality({j \in RouteRecordsOf(id) : j <= i})
    /\ \A i, j \in Indexes(handed, "route_event") :
           handed[i].route_event_number = handed[j].route_event_number => i = j

\* C33: no record is handed to Logger::log_async or Logger::log_sync by a
\* thread inside a critical section on session_mutex_
C33_NoLogUnderSessionLock ==
    [][ session_lock_guard => UNCHANGED handed ]_vars

\* C34: a message that is not a route add or delete or a qdisc add, delete
\* or get is ignored by the subscriber, and no session is ever started by an
\* RTM_GETQDISC message (delivered as QDISC_GET or QDISC_CHANGE)
C34_ForwardedTypes ==
    /\ [][ \A r \in ReaderIds(design) : \A ev \in QdiscInputs :
               (/\ QdiscArriveMsg(r, ev)
                /\ ev.nlmsg_type \notin {"RTM_NEWROUTE", "RTM_DELROUTE", "RTM_NEWQDISC",
                                         "RTM_DELQDISC", "RTM_GETQDISC"}) =>
                   UNCHANGED <<sessVars, cntVars, logVars, recent_qdisc_events_, reader>> ]_vars
    /\ [](\A i \in Indexes(handed, "session_started") :
              handed[i].trigger_event_type \notin {"QDISC_GET", "QDISC_CHANGE"})

\* a call of NetlinkMonitor::start_monitoring returns in this step
StartReturns ==
    /\ Len(calls') = Len(calls) + 1
    /\ calls'[Len(calls')] \in {"start", "start_failed"}

\* C35: a failed NetlinkMonitor::start_monitoring leaves running_ false, no
\* reader thread started and no descriptor open that the call opened (each is
\* -1 or as it was before the call, all are -1 on a monitor that had none);
\* a start on a running monitor returns true and opens and starts nothing
C35_StartFailureAndRestart ==
    [][ StartReturns =>
          /\ calls'[Len(calls')] = "start_failed" =>
                /\ ~netlink_running_ /\ ~netlink_running_'
                /\ UNCHANGED <<reader, crashed>>
                /\ netlink_monitor_'.joinable = netlink_monitor_.joinable
                /\ netlink_monitor_'.netlink_socket_fd_ = -1
                /\ netlink_monitor_'.epoll_fd_ \in {-1, netlink_monitor_.epoll_fd_}
                /\ \A i \in 1..2 : netlink_monitor_'.shutdown_pipe_[i] \in
                                       {-1, netlink_monitor_.shutdown_pipe_[i]}
                /\ netlink_monitor_ = NetlinkConstructed(design) =>
                       netlink_monitor_' = NetlinkConstructed(design)
          /\ netlink_running_ =>
                /\ calls'[Len(calls')] = "start"
                /\ UNCHANGED <<netlink_running_, netlink_monitor_, reader, crashed>> ]_vars

C35_Witness ==
    /\ scenario = "netlink"
    /\ netlink_running_
    /\ netlink_monitor_ = NetlinkStarted(design)
    /\ calls = <<"start_failed", "start", "start">>

\* C36: Logger::stop terminates: while stop waits in log_thread_.join(), the
\* consumer is never asleep in queue_cv_.wait with running_ false, the
\* notification already spent and no producer left to wake it
C36_StopTerminates ==
    ~(/\ scenario = "logger"
      /\ main_pc = "join_logger"
      /\ ~log_running_
      /\ consumer.pc = "blocked")

\* the handler's call of stop_monitoring has begun and has not returned
StopInProgress == calls # <<>> /\ main_pc # "stopped"

\* C37: when signal_handler and main both call stop_monitoring, at most one
\* monitoring_completed record is produced, the handler's call never reaches
\* the join of the thread it runs on, and main does not destroy the monitor
\* while the handler's call, on another thread, is still in progress
C37_ShutdownOnce ==
    scenario = "signal" =>
        /\ Cardinality(Indexes(handed, "monitoring_completed")) <= 1
        /\ ~ENABLED self_join
        /\ ~(/\ StopInProgress
             /\ calls[1] # "main"
             /\ Len(calls) = 3)

\* no event handler is in the middle of a call and the checker is between ticks
Quiescent ==
    /\ \A r \in ReaderIds(design) : reader[r].pc \in {"unstarted", "idle", "exited"}
    /\ checker.pc \notin {"check", "finish"}

\* the route events held by the sessions in ids
RECURSIVE RouteEventsHeld(_)
RouteEventsHeld(ids) ==
    IF ids = {} THEN 0
    ELSE LET id == CHOOSE i \in ids : TRUE
         IN  Len(sessions[id].route_events) + RouteEventsHeld(ids \ {id})

\* C38: in every quiescent state the two trigger counters add up to
\* session_counter_, which is the number of sessions created, and
\* total_route_events_ is the number of route events held by the completed
\* sessions and the current one
C38_CounterConsistency ==
    Quiescent =>
        /\ total_netem_triggers_ + total_route_triggers_ = session_counter_
        /\ session_counter_ = Len(sessions)
        /\ total_route_events_ =
               RouteEventsHeld({completed_sessions_[i] : i \in 1..Len(completed_sessions_)}
                                   \cup ({current_session_} \ {0}))

\* C39: every session_completed record of a session the checker finalized
\* carries session_duration_ms >= convergence_time_ms + convergence_threshold_ms
C39_DurationCoversQuietPeriod ==
    \A i \in Indexes(handed, "session_completed") :
        /\ has_value(handed[i].convergence_time_ms)
        /\ handed[i].session_duration_ms >=
               value(handed[i].convergence_time_ms) + convergence_threshold_ms_

C39_Witness ==
    \E i \in Indexes(handed, "session_completed") :
        /\ handed[i].route_events_count > 0
        /\ value(handed[i].convergence_time_ms) > 0
        /\ handed[i].session_duration_ms =
               value(handed[i].convergence_time_ms) + convergence_threshold_ms_

\* C40: a QDISC_DEL without kind on an interface is taken as netem-related
\* (handled, not dropped) whenever one of the 20 qdisc observations before
\* it is a netem observation on that interface
C40_LookbackWindow ==
    [][ \A r \in ReaderIds(design) : \A ev \in QdiscInputs :
            (/\ QdiscDelivered(r, ev)
             /\ ev.nlmsg_type = "RTM_DELQDISC"
             /\ ev.kind = "unknown"
             /\ \E i \in 1..Len(recent_qdisc_events_) :
                    /\ i > Len(recent_qdisc_events_) - MAX_QDISC_EVENTS
                    /\ recent_qdisc_events_[i].interface = ev.interface
                    /\ recent_qdisc_events_[i].is_netem) =>
                reader'[r].pc = "hqe_state" ]_vars

====
